---- MODULE Spec2Model ----
(***************************************************************************)
(* Bulk data operations of cumulusci/tasks/bulkdata/step.py:               *)
(*   - the Bulk API job poller (BulkJobMixin) and the scoped lifecycle of  *)
(*     BulkApiDmlOperation and BulkApiQueryOperation      (Spec, FairSpec) *)
(*   - the operation factories get_query_operation / get_dml_operation     *)
(*                                                        (SpecFactory)    *)
(*   - the CSV chunker BulkApiDmlOperation._batch         (SpecBatch)      *)
(*   - BulkApiDmlOperation.load_records and get_results   (SpecLoad)       *)
(*   - RestApiDmlOperation: load_records, select_records,                  *)
(*     get_results                                        (SpecRest)       *)
(*   - either DML variant                                 (SpecDml)        *)
(*   - RestApiQueryOperation: query and get_results       (SpecQuery)      *)
(*   - download_file inside get_results of the Bulk API                    *)
(*     operations                                         (SpecFiles)      *)
(*   - a DML operation of either variant from __init__ on, with            *)
(*     get_prev_record_values                             (SpecOperation)  *)
(***************************************************************************)
EXTENDS Integers, Sequences, FiniteSets, TLC

VARIABLES
    \* ---- Bulk API job lifecycle (one operation instance, one job) ----
    opType,       \* "dml" (BulkApiDmlOperation) or "query" (BulkApiQueryOperation)
    pc,           \* position of the calling thread
    serverJob,    \* the job on the server: "none", "open", "closed"
    batches,      \* the server's batch documents of the job, in creation order
    result,       \* local `result` of _wait_for_job (last parsed poll)
    job_result,   \* self.job_result
    nStart,       \* number of start() calls
    nEnd,         \* number of end() calls
    exc,          \* exception in flight: "none", "body", "transport"
    errlog,       \* lines passed to logger.error
    polls,        \* polls performed so far (observation only, saturates)
    \* ---- operation factories ----
    fpc,          \* "ready" before the factory call, "returned" after it
    fargs,        \* the arguments and the org the factory is called with
    fclass,       \* the class of the operation the factory returned
    restful_calls, \* requests sent to limits/recordCount by the factory
    \* ---- BulkApiDmlOperation._batch, driven by load_records ----
    bpc,          \* "new", "loop" (inside the generator), "done"
    caller_options, \* the api_options mapping the caller passed to __init__
    api_options,  \* self.api_options
    records,      \* the input rows, each a list of field values
    char_limit,   \* the char_limit argument of _batch
    next_record,  \* index of the next input row the for loop takes
    batch,        \* local `batch` of _batch
    current_chars, \* local `current_chars` of _batch
    emitted,      \* the batches yielded so far, in emission order
    \* ---- BulkApiDmlOperation.load_records and get_results ----
    lpc,          \* "new", "load", "loaded", "post_failed", "results",
                  \* "exhausted", "raised"
    batch_ids,    \* self.batch_ids
    posted,       \* the post_batch requests the server received, in order
    fetched,      \* the batch ids whose result file was requested, in order
    yielded,      \* the DataOperationResults get_results yielded so far
    origin,       \* for each yielded result, the data row it reports on
    raised,       \* the exception get_results raised, or None
    \* ---- RestApiDmlOperation ----
    rpc,          \* "new", "chunks", "done", "yielded", "failed"
    rest_operation, \* self.operation
    rest_caller_options, \* the api_options mapping the caller passed
    rest_api_options, \* self.api_options
    rest_records, \* the input rows of load_records / select_records
    consumed,     \* input rows the chunk loop has taken so far
    requests,     \* the composite/sobjects requests sent, in order
    queries,      \* the SOQL queries sent, in order
    results,      \* self.results
    rest_job_result, \* self.job_result
    rest_yielded, \* the DataOperationResults get_results yielded
    rest_exc,     \* the exception a handler raised, or None
    \* ---- RestApiQueryOperation ----
    qpc,          \* "new", "queried", "page" (inside get_results), "exhausted",
                  \* "failed"
    pages,        \* the pages of the result set the server holds for the query
    q_response,   \* self.response
    query_job_result, \* self.job_result
    q_pos,        \* rows of self.response["records"] the generator has taken
    q_yielded,    \* the rows the current get_results call yielded so far
    q_calls,      \* the calls of sf.query and sf.query_more, in order
    q_started,    \* the page self.response held when get_results was called
    q_runs,       \* get_results calls since the last query()
    \* ---- download_file inside get_results of the Bulk API operations ----
    dpc,          \* "loop" (head of the for loop), "created", "header", "rows",
                  \* "yielded" (suspended at a yield), "exhausted", "failed",
                  \* "closed"
    d_variant,    \* "dml" (BulkApiDmlOperation) or "query" (BulkApiQueryOperation)
    d_files,      \* the result files the server holds, in the order of the ids
    d_next,       \* index of the id the for loop takes next
    tempfiles,    \* the paths that exist in the temporary directory
    mkstemps,     \* mkstemp calls so far; the last one is the local `path`
    d_unread,     \* the lines of the open file the reader has not read yet
    d_yielded,    \* rows yielded so far
    d_exc,        \* the exception get_results raised, or None
    \* ---- a DML operation from __init__ on, and get_prev_record_values ----
    bulk_operation, \* self.operation of the BulkApiDmlOperation
    prev_calls,   \* the calls get_prev_record_values made on self.bulk / self.sf
    prev_record_values, \* local `prev_record_values`
    prev_exc      \* the exception get_prev_record_values raised, or None

jobVars == <<opType, pc, serverJob, batches, result, job_result, nStart, nEnd,
             exc, errlog, polls>>

factoryVars == <<fpc, fargs, fclass, restful_calls>>

batchVars == <<bpc, caller_options, api_options, records, char_limit,
               next_record, batch, current_chars, emitted>>

loadVars == <<lpc, batch_ids, posted, fetched, yielded, origin, raised>>

restVars == <<rpc, rest_operation, rest_caller_options, rest_api_options,
              rest_records, consumed, requests, queries, results,
              rest_job_result, rest_yielded, rest_exc>>

queryVars == <<qpc, pages, q_response, query_job_result, q_pos, q_yielded,
               q_calls, q_started, q_runs>>

fileVars == <<dpc, d_variant, d_files, d_next, tempfiles, mkstemps, d_unread,
              d_yielded, d_exc>>

prevVars == <<bulk_operation, prev_calls, prev_record_values, prev_exc>>

notJobVars == <<factoryVars, batchVars, loadVars, restVars, queryVars, fileVars,
                prevVars>>
notFactoryVars == <<jobVars, batchVars, loadVars, restVars, queryVars, fileVars,
                    prevVars>>
notBatchVars == <<jobVars, factoryVars, loadVars, restVars, queryVars, fileVars,
                  prevVars>>
notLoadVars == <<jobVars, factoryVars, restVars, queryVars, fileVars, prevVars>>
notRestVars == <<jobVars, factoryVars, batchVars, loadVars, queryVars, fileVars,
                 prevVars>>
notQueryVars == <<jobVars, factoryVars, batchVars, loadVars, restVars, fileVars,
                  prevVars>>
notFileVars == <<jobVars, factoryVars, batchVars, loadVars, restVars, queryVars,
                 prevVars>>
notDmlVars == <<jobVars, factoryVars, queryVars, fileVars>>

vars == <<opType, pc, serverJob, batches, result, job_result, nStart, nEnd,
          exc, errlog, polls, fpc, fargs, fclass, restful_calls,
          bpc, caller_options, api_options, records, char_limit, next_record,
          batch, current_chars, emitted,
          lpc, batch_ids, posted, fetched, yielded, origin, raised,
          rpc, rest_operation, rest_caller_options, rest_api_options,
          rest_records, consumed, requests, queries, results,
          rest_job_result, rest_yielded, rest_exc,
          qpc, pages, q_response, query_job_result, q_pos, q_yielded, q_calls,
          q_started, q_runs,
          dpc, d_variant, d_files, d_next, tempfiles, mkstemps, d_unread,
          d_yielded, d_exc,
          bulk_operation, prev_calls, prev_record_values, prev_exc>>

----------------------------------------------------------------------------
(* Bounds of the model *)
MaxBatches == 2          \* batches submitted under one job
MaxPollsCounted == 3     \* the observation counter `polls` saturates here

----------------------------------------------------------------------------
(* DataOperationStatus *)
SUCCESS == "Success"
ROW_FAILURE == "Row failure"
JOB_FAILURE == "Job failure"
IN_PROGRESS == "In progress"
ABORTED == "Aborted"

DataOperationStatus == {SUCCESS, ROW_FAILURE, JOB_FAILURE, IN_PROGRESS, ABORTED}

(* the value of job_result before any assignment (None) *)
None == "None"
NoJobResult ==
    [status |-> None, job_errors |-> <<>>, records_processed |-> 0,
     total_row_errors |-> 0]

DataOperationJobResult(status, job_errors, records_processed, total_row_errors) ==
    [status |-> status, job_errors |-> job_errors,
     records_processed |-> records_processed,
     total_row_errors |-> total_row_errors]

----------------------------------------------------------------------------
(* The batch list document the server returns for a job: one entry per     *)
(* batch with <state>, an optional <stateMessage>, <numberRecordsFailed>   *)
(* and <numberRecordsProcessed>.                                           *)
Queued == "Queued"
InProgress == "InProgress"
Completed == "Completed"
Failed == "Failed"
NotProcessed == "Not Processed"

NoElement == "<absent>"       \* the batch carries no <stateMessage> element

BatchInfo(state, msg, failed, processed) ==
    [state |-> state, stateMessage |-> msg, numberRecordsFailed |-> failed,
     numberRecordsProcessed |-> processed]

NewBatch == BatchInfo(Queued, NoElement, 0, 0)

RECURSIVE sum(_)
sum(s) == IF s = <<>> THEN 0 ELSE Head(s) + sum(Tail(s))

RECURSIVE TextsOf(_)
\* [el.text for el in tree.iterfind(".//stateMessage")]
TextsOf(xml) ==
    IF xml = <<>> THEN <<>>
    ELSE IF Head(xml).stateMessage = NoElement THEN TextsOf(Tail(xml))
         ELSE <<Head(xml).stateMessage>> \o TextsOf(Tail(xml))

In(x, list) == \E i \in 1..Len(list) : list[i] = x

\* A mutation of _parse_job_state: "Failed" tested before the pending states.
_parse_job_state_FailedFirst(xml) ==
    LET statuses == [i \in 1..Len(xml) |-> xml[i].state]
        f == sum([i \in 1..Len(xml) |-> xml[i].numberRecordsFailed])
        p == sum([i \in 1..Len(xml) |-> xml[i].numberRecordsProcessed])
    IN  IF In(NotProcessed, statuses) THEN DataOperationJobResult(ABORTED, <<>>, p, f)
        ELSE IF In(Failed, statuses)
             THEN DataOperationJobResult(JOB_FAILURE, TextsOf(xml), p, f)
        ELSE IF In(InProgress, statuses) \/ In(Queued, statuses)
             THEN DataOperationJobResult(IN_PROGRESS, <<>>, p, f)
        ELSE IF f # 0 THEN DataOperationJobResult(ROW_FAILURE, <<>>, p, f)
        ELSE DataOperationJobResult(SUCCESS, <<>>, p, f)

\* A mutation of _parse_job_state: an aborted job reports no counts.
_parse_job_state_AbortedNoCounts(xml) ==
    LET statuses == [i \in 1..Len(xml) |-> xml[i].state]
        f == sum([i \in 1..Len(xml) |-> xml[i].numberRecordsFailed])
        p == sum([i \in 1..Len(xml) |-> xml[i].numberRecordsProcessed])
    IN  IF In(NotProcessed, statuses) THEN DataOperationJobResult(ABORTED, <<>>, 0, 0)
        ELSE IF In(InProgress, statuses) \/ In(Queued, statuses)
             THEN DataOperationJobResult(IN_PROGRESS, <<>>, p, f)
        ELSE IF In(Failed, statuses)
             THEN DataOperationJobResult(JOB_FAILURE, TextsOf(xml), p, f)
        ELSE IF f # 0 THEN DataOperationJobResult(ROW_FAILURE, <<>>, p, f)
        ELSE DataOperationJobResult(SUCCESS, <<>>, p, f)
_parse_job_state(xml) ==
    LET statuses == [i \in 1..Len(xml) |-> xml[i].state]
        state_messages == TextsOf(xml)
        record_failure_count ==
            sum([i \in 1..Len(xml) |-> xml[i].numberRecordsFailed])
        records_processed_count ==
            sum([i \in 1..Len(xml) |-> xml[i].numberRecordsProcessed])
    IN  IF In(NotProcessed, statuses)
        THEN DataOperationJobResult(ABORTED, <<>>, records_processed_count,
                                    record_failure_count)
        ELSE IF In(InProgress, statuses) \/ In(Queued, statuses)
        THEN DataOperationJobResult(IN_PROGRESS, <<>>, records_processed_count,
                                    record_failure_count)
        ELSE IF In(Failed, statuses)
        THEN DataOperationJobResult(JOB_FAILURE, state_messages,
                                    records_processed_count, record_failure_count)
        ELSE IF record_failure_count # 0
        THEN DataOperationJobResult(ROW_FAILURE, <<>>, records_processed_count,
                                    record_failure_count)
        ELSE DataOperationJobResult(SUCCESS, <<>>, records_processed_count,
                                    record_failure_count)

----------------------------------------------------------------------------
(* The server side of the job: what the batch list endpoint will report.   *)
(* A batch holds one record; it is queued, then processed, and ends        *)
(* Completed, Failed or (job aborted while queued) Not Processed.          *)
BatchStep(b) ==
    CASE b.state = Queued ->
            { BatchInfo(InProgress, NoElement, 0, 0),
              BatchInfo(NotProcessed, NoElement, 0, 0),
              BatchInfo(Failed, "InvalidBatch", 0, 0) }
      [] b.state = InProgress /\ b.numberRecordsProcessed = 0 ->
            { BatchInfo(InProgress, NoElement, 0, 1),
              BatchInfo(InProgress, NoElement, 1, 1),
              BatchInfo(Failed, "Timeout", 0, 0) }
      [] b.state = InProgress /\ b.numberRecordsProcessed > 0 ->
            { BatchInfo(Completed, NoElement, b.numberRecordsFailed,
                        b.numberRecordsProcessed) }
      [] OTHER -> {}

\* the server works on one batch of the job (followed for as long as the
\* operation is in use: nothing reads the batch list afterwards)
ServerStep ==
    /\ serverJob # "none"
    /\ pc \notin {"left", "failed"}
    /\ \E i \in 1..Len(batches) : \E b \in BatchStep(batches[i]) :
          batches' = [batches EXCEPT ![i] = b]
    /\ UNCHANGED <<opType, pc, serverJob, result, job_result, nStart, nEnd, exc,
                   errlog, polls>>

----------------------------------------------------------------------------
(* BulkApiDmlOperation used as a scoped block *)

\* __enter__ -> start(): bulk.create_job
start ==
    /\ opType = "dml" /\ pc = "new"
    /\ nStart' = nStart + 1
    /\ serverJob' = "open"
    /\ pc' = "body"
    /\ UNCHANGED <<opType, batches, result, job_result, nEnd, exc, errlog, polls>>

\* create_job raises: __enter__ fails, the block is never entered
start_raises ==
    /\ opType = "dml" /\ pc = "new"
    /\ nStart' = nStart + 1
    /\ exc' = "transport"
    /\ pc' = "failed"
    /\ UNCHANGED <<opType, serverJob, batches, result, job_result, nEnd, errlog,
                   polls>>

\* body of the block, load_records: bulk.post_batch of one more csv batch
post_batch ==
    /\ opType = "dml" /\ pc = "body"
    /\ Len(batches) < MaxBatches
    /\ batches' = Append(batches, NewBatch)
    /\ UNCHANGED <<opType, pc, serverJob, result, job_result, nStart, nEnd, exc,
                   errlog, polls>>

\* the body of the block completes normally
body_done ==
    /\ pc = "body"
    /\ pc' = "exit"
    /\ UNCHANGED <<opType, serverJob, batches, result, job_result, nStart, nEnd,
                   exc, errlog, polls>>

\* the body of the block raises
body_raises ==
    /\ pc = "body"
    /\ exc' = "body"
    /\ pc' = "exit"
    /\ UNCHANGED <<opType, serverJob, batches, result, job_result, nStart, nEnd,
                   errlog, polls>>

\* A mutation of __exit__: end() is skipped when the body raised.
exit_end_OnlyOnSuccess ==
    /\ opType = "dml" /\ pc = "exit"
    /\ IF exc = "none"
       THEN /\ nEnd' = nEnd + 1
            /\ serverJob' = "closed"
            /\ pc' = "poll"
       ELSE /\ pc' = "left"
            /\ UNCHANGED <<nEnd, serverJob>>
    /\ UNCHANGED <<opType, batches, result, job_result, nStart, exc, errlog, polls>>

\* __exit__ -> end(): bulk.close_job, then _wait_for_job
exit_end ==
    /\ opType = "dml" /\ pc = "exit"
    /\ nEnd' = nEnd + 1
    /\ serverJob' = "closed"
    /\ pc' = "poll"
    /\ UNCHANGED <<opType, batches, result, job_result, nStart, exc, errlog, polls>>

\* __exit__ -> end(): bulk.close_job raises, end() propagates the error
exit_end_raises ==
    /\ opType = "dml" /\ pc = "exit"
    /\ nEnd' = nEnd + 1
    /\ exc' = "transport"
    /\ pc' = "left"
    /\ UNCHANGED <<opType, serverJob, batches, result, job_result, nStart, errlog,
                   polls>>

----------------------------------------------------------------------------
(* BulkApiQueryOperation: __enter__ -> query() *)

\* bulk.create_query_job
query_create ==
    /\ opType = "query" /\ pc = "new"
    /\ serverJob' = "open"
    /\ pc' = "q_submit"
    /\ UNCHANGED <<opType, batches, result, job_result, nStart, nEnd, exc, errlog,
                   polls>>

\* bulk.query: the query text is submitted as one batch
query_submit ==
    /\ opType = "query" /\ pc = "q_submit"
    /\ batches' = Append(batches, NewBatch)
    /\ pc' = "poll"
    /\ UNCHANGED <<opType, serverJob, result, job_result, nStart, nEnd, exc,
                   errlog, polls>>

\* A mutation of query(): the job is closed before the wait is over.
query_close_BeforeWait ==
    /\ opType = "query" /\ pc \in {"poll", "q_close"} /\ serverJob = "open"
    /\ serverJob' = "closed"
    /\ pc' = IF pc = "q_close" THEN "body" ELSE pc
    /\ UNCHANGED <<opType, batches, result, job_result, nStart, nEnd, exc, errlog,
                   polls>>
\* bulk.close_job after the wait
query_close ==
    /\ opType = "query" /\ pc = "q_close"
    /\ serverJob' = "closed"
    /\ pc' = "body"
    /\ UNCHANGED <<opType, batches, result, job_result, nStart, nEnd, exc, errlog,
                   polls>>

\* a transport call of query() raises: __enter__ fails
query_raises ==
    /\ opType = "query" /\ pc \in {"new", "q_submit", "q_close"}
    /\ exc' = "transport"
    /\ pc' = "failed"
    /\ UNCHANGED <<opType, serverJob, batches, result, job_result, nStart, nEnd,
                   errlog, polls>>

\* __exit__ of a query operation does nothing
query_exit ==
    /\ opType = "query" /\ pc = "exit"
    /\ pc' = "left"
    /\ UNCHANGED <<opType, serverJob, batches, result, job_result, nStart, nEnd,
                   exc, errlog, polls>>

----------------------------------------------------------------------------
(* BulkJobMixin._wait_for_job *)

Min(a, b) == IF a < b THEN a ELSE b

\* A mutation of the loop test: the loop is left after the first poll.
LoopBreaks_Always(r) == TRUE

\* A mutation of the loop test: the loop is left on Success only.
LoopBreaks_OnlySuccess(r) == r.status = SUCCESS

\* `if result.status is not DataOperationStatus.IN_PROGRESS: break`
LoopBreaks(r) == r.status # IN_PROGRESS

\* one iteration: job_status, _job_state_from_batches, the loop test
poll ==
    /\ pc = "poll"
    /\ result' = _parse_job_state(batches)
    /\ pc' = IF LoopBreaks(result') THEN "finish" ELSE "sleep"
    /\ polls' = Min(polls + 1, MaxPollsCounted)
    /\ UNCHANGED <<opType, serverJob, batches, job_result, nStart, nEnd, exc,
                   errlog>>

\* job_status or the batch list request raises (raise_for_status)
poll_raises ==
    /\ pc = "poll"
    /\ exc' = "transport"
    /\ pc' = IF opType = "dml" THEN "left" ELSE "failed"
    /\ UNCHANGED <<opType, serverJob, batches, result, job_result, nStart, nEnd,
                   errlog, polls>>

\* time.sleep(10), then the next iteration
sleep ==
    /\ pc = "sleep"
    /\ pc' = "poll"
    /\ UNCHANGED <<opType, serverJob, batches, result, job_result, nStart, nEnd,
                   exc, errlog, polls>>

\* A mutation of the end of _wait_for_job: the state messages are not logged.
finish_LogsNothing ==
    /\ pc = "finish"
    /\ job_result' = result
    /\ pc' = IF opType = "dml" THEN "left" ELSE "q_close"
    /\ UNCHANGED <<opType, serverJob, batches, result, nStart, nEnd, exc, polls,
                   errlog>>

\* after the loop: the log lines, `return result`, and the caller's
\* `self.job_result = self._wait_for_job(self.job_id)`
finish ==
    /\ pc = "finish"
    /\ errlog' = IF result.status = JOB_FAILURE
                 THEN errlog \o result.job_errors ELSE errlog
    /\ job_result' = result
    /\ pc' = IF opType = "dml" THEN "left" ELSE "q_close"
    /\ UNCHANGED <<opType, serverJob, batches, result, nStart, nEnd, exc, polls>>

----------------------------------------------------------------------------
JobInit ==
    /\ opType \in {"dml", "query"}
    /\ pc = "new"
    /\ serverJob = "none"
    /\ batches = <<>>
    /\ result = NoJobResult
    /\ job_result = NoJobResult
    /\ nStart = 0
    /\ nEnd = 0
    /\ exc = "none"
    /\ errlog = <<>>
    /\ polls = 0

----------------------------------------------------------------------------
(* DataOperationType and DataApi *)
INSERT == "insert"
UPDATE == "update"
DELETE == "delete"
HARD_DELETE == "hardDelete"
QUERY == "query"
UPSERT == "upsert"
ETL_UPSERT == "etl_upsert"
SMART_UPSERT == "smart_upsert"
SELECT == "select"

DataOperationType ==
    {INSERT, UPDATE, DELETE, HARD_DELETE, QUERY, UPSERT, ETL_UPSERT, SMART_UPSERT,
     SELECT}

BULK == "bulk"
REST == "rest"
SMART == "smart"

\* the values the `api` argument takes: a DataApi member, or None
ApiChoices == {BULK, REST, SMART, None}

----------------------------------------------------------------------------
(* get_query_operation and get_dml_operation *)

\* float(context.sf.sf_version): Salesforce API versions are whole numbers
SfVersions == {40, 41, 42, 43, 58}
Volumes == {0, 10, 500, 1999, 2000, 2001, 5000}
Counts == {0, 1999, 2000, 2001}
SObjects == {"Account", "Contact"}

\* responses of limits/recordCount: at most one entry per object
RecordCountResponses ==
    {<<>>}
    \cup { <<[name |-> o, count |-> c]>> : o \in SObjects, c \in Counts }
    \cup { <<[name |-> "Contact", count |-> c1], [name |-> "Account", count |-> c2]>> :
             c1 \in Counts, c2 \in Counts }

\* {entry["name"]: entry["count"] for entry in record_count_response["sObjects"]}
sobject_map(response) ==
    [ o \in { response[i].name : i \in 1..Len(response) } |->
        LET last == CHOOSE i \in 1..Len(response) :
                        /\ response[i].name = o
                        /\ \A j \in (i+1)..Len(response) : response[j].name # o
        IN  response[last].count ]

\* A mutation of the version test: only the automatic choice is overridden.
ForceBulk_AutoOnly(api_version, api) == api_version < 42 /\ api \in {SMART, None}

\* `if api_version < 42.0 and api is not DataApi.BULK: api = DataApi.BULK`
ForceBulk(api_version, api) == api_version < 42 /\ api # BULK

\* A mutation of get_query_operation: Bulk only above 2000 records.
get_query_operation_Above(sobject, api, sf_version, record_count_response) ==
    LET api1 == IF ForceBulk(sf_version, api) THEN BULK ELSE api
        smart == api1 \in {SMART, None}
        map == sobject_map(record_count_response)
        api2 == IF smart
                THEN IF sobject \in DOMAIN map /\ map[sobject] > 2000
                     THEN BULK ELSE REST
                ELSE api1
    IN  [class |-> IF api2 = BULK THEN "BulkApiQueryOperation"
                   ELSE "RestApiQueryOperation",
         restful |-> IF smart THEN 1 ELSE 0]

get_query_operation(sobject, api, sf_version, record_count_response) ==
    LET api_version == sf_version
        api1 == IF ForceBulk(api_version, api) THEN BULK ELSE api
        smart == api1 \in {SMART, None}
        map == sobject_map(record_count_response)
        api2 == IF smart
                THEN IF sobject \in DOMAIN map /\ map[sobject] >= 2000
                     THEN BULK ELSE REST
                ELSE api1
    IN  [class |-> IF api2 = BULK THEN "BulkApiQueryOperation"
                   ELSE IF api2 = REST THEN "RestApiQueryOperation"
                   ELSE "AssertionError",
         restful |-> IF smart THEN 1 ELSE 0]

\* A mutation of get_dml_operation: the HARD_DELETE test is dropped.
get_dml_operation_VolumeOnly(operation, volume, api, sf_version) ==
    LET api1 == IF ForceBulk(sf_version, api) THEN BULK ELSE api
        api2 == IF api1 \in {SMART, None}
                THEN IF volume >= 2000 THEN BULK ELSE REST
                ELSE api1
    IN  IF api2 = BULK THEN "BulkApiDmlOperation" ELSE "RestApiDmlOperation"

get_dml_operation(operation, volume, api, sf_version) ==
    LET api_version == sf_version
        api1 == IF ForceBulk(api_version, api) THEN BULK ELSE api
        api2 == IF api1 \in {SMART, None}
                THEN IF volume >= 2000 \/ operation = HARD_DELETE
                     THEN BULK ELSE REST
                ELSE api1
    IN  IF api2 = BULK THEN "BulkApiDmlOperation"
        ELSE IF api2 = REST THEN "RestApiDmlOperation"
        ELSE "AssertionError"

\* a caller asks the factory for a query operation
call_get_query_operation ==
    /\ fpc = "ready" /\ fargs.fn = "get_query_operation"
    /\ LET r == get_query_operation(fargs.sobject, fargs.api, fargs.sf_version,
                                    fargs.record_count_response)
       IN  /\ fclass' = r.class
           /\ restful_calls' = restful_calls + r.restful
    /\ fpc' = "returned"
    /\ UNCHANGED <<fargs>>

\* a caller asks the factory for a DML operation
call_get_dml_operation ==
    /\ fpc = "ready" /\ fargs.fn = "get_dml_operation"
    /\ fclass' = get_dml_operation(fargs.operation, fargs.volume, fargs.api,
                                   fargs.sf_version)
    /\ fpc' = "returned"
    /\ UNCHANGED <<fargs, restful_calls>>

FactoryArgs ==
    [fn : {"get_query_operation"}, sobject : {"Account"}, operation : {QUERY},
     volume : {0}, api : ApiChoices, sf_version : SfVersions,
     record_count_response : RecordCountResponses]
    \cup
    [fn : {"get_dml_operation"}, sobject : {"Account"},
     operation : DataOperationType, volume : Volumes, api : ApiChoices,
     sf_version : SfVersions, record_count_response : {<<>>}]

FactoryIdle ==
    /\ fpc = "idle"
    /\ fargs = <<>>
    /\ fclass = None
    /\ restful_calls = 0

FactoryInit ==
    /\ fpc = "ready"
    /\ fargs \in FactoryArgs
    /\ fclass = None
    /\ restful_calls = 0

----------------------------------------------------------------------------
(* BulkApiDmlOperation: __init__, _serialize_csv_record, _batch *)

DEFAULT_BULK_BATCH_SIZE == 10000

MaxRecords == 3          \* input rows given to load_records
MaxBatchSize == 2        \* largest batch_size a caller passes
MaxCharLimit == 17       \* largest char_limit given to _batch

\* A string is a sequence of characters; U+00E9 takes two bytes in UTF-8.
utf8(c) ==
    CASE c = "a" -> <<97>>
      [] c = "I" -> <<73>>
      [] c = "d" -> <<100>>
      [] c = "\"" -> <<34>>
      [] c = "," -> <<44>>
      [] c = "\r" -> <<13>>
      [] c = "\n" -> <<10>>
      [] c = "U+00E9" -> <<195, 169>>

RECURSIVE encode(_)
\* str.encode("utf-8")
encode(str) == IF str = <<>> THEN <<>> ELSE utf8(Head(str)) \o encode(Tail(str))

RECURSIVE quoted(_)
\* csv.QUOTE_ALL with doublequote: every quote character inside a field is doubled
quoted(field) ==
    IF field = <<>> THEN <<>>
    ELSE (IF Head(field) = "\"" THEN <<"\"", "\"">> ELSE <<Head(field)>>)
         \o quoted(Tail(field))

RECURSIVE writerow(_)
\* csv.writer(..., quoting=csv.QUOTE_ALL).writerow: the fields, quoted and
\* joined by commas, without the line terminator
writerow(record) ==
    IF record = <<>> THEN <<>>
    ELSE <<"\"">> \o quoted(Head(record)) \o <<"\"">>
         \o (IF Tail(record) = <<>> THEN <<>> ELSE <<",">> \o writerow(Tail(record)))

\* the row in .csv format, as bytes
_serialize_csv_record(record) == encode(writerow(record) \o <<"\r", "\n">>)

\* self.fields
fields == <<<<"I", "d">>>>

\* `self.api_options.get("batch_size") or DEFAULT_BULK_BATCH_SIZE`
BulkBatchSize(options) ==
    IF "batch_size" \in DOMAIN options /\ options.batch_size # 0
    THEN options.batch_size
    ELSE DEFAULT_BULK_BATCH_SIZE

\* A mutation of the character test: it ignores the rows already in the batch.
OverCharLimit_RecordOnly(serialized_record, chars, limit) ==
    Len(serialized_record) > limit

\* `len(serialized_record) + current_chars > char_limit`
OverCharLimit(serialized_record, chars, limit) ==
    Len(serialized_record) + chars > limit

\* A mutation of the size test: the header row is counted as a record.
AtDesiredSize_CountsHeader(b, n) == Len(b) - 2 = n

\* `len(batch) - 1 == n`
AtDesiredSize(b, n) == Len(b) - 1 = n

\* A mutation of the loop body: the record that triggers the character flush
\* is not carried over into the fresh batch.
loop_body_DropsRecord(b, chars, record, n, limit) ==
    LET serialized_csv_fields == _serialize_csv_record(fields)
        serialized_record == _serialize_csv_record(record)
        over == OverCharLimit(serialized_record, chars, limit)
        b2 == IF over THEN <<serialized_csv_fields>> ELSE Append(b, serialized_record)
        c2 == IF over THEN Len(serialized_csv_fields)
              ELSE chars + Len(serialized_record)
        full == AtDesiredSize(b2, n)
    IN  [yields |-> (IF over THEN <<b>> ELSE <<>>)
                    \o (IF full THEN <<b2>> ELSE <<>>),
         batch |-> IF full THEN <<serialized_csv_fields>> ELSE b2,
         current_chars |-> IF full THEN Len(serialized_csv_fields) ELSE c2]

\* one pass of `for record in records:` in _batch
loop_body(b, chars, record, n, limit) ==
    LET serialized_csv_fields == _serialize_csv_record(fields)
        len_csv_fields == Len(serialized_csv_fields)
        serialized_record == _serialize_csv_record(record)
        over == OverCharLimit(serialized_record, chars, limit)
        \* after the character test
        b1 == IF over THEN <<serialized_csv_fields>> ELSE b
        c1 == IF over THEN len_csv_fields ELSE chars
        \* batch.append / current_chars +=
        b2 == Append(b1, serialized_record)
        c2 == c1 + Len(serialized_record)
        full == AtDesiredSize(b2, n)
    IN  [yields |-> (IF over THEN <<b>> ELSE <<>>)
                    \o (IF full THEN <<b2>> ELSE <<>>),
         batch |-> IF full THEN <<serialized_csv_fields>> ELSE b2,
         current_chars |-> IF full THEN len_csv_fields ELSE c2]

\* load_records calls _batch(records, batch_size): the generator starts
batch_begin ==
    /\ bpc = "new"
    /\ batch' = <<_serialize_csv_record(fields)>>
    /\ current_chars' = Len(_serialize_csv_record(fields))
    /\ next_record' = 1
    /\ bpc' = "loop"
    /\ UNCHANGED <<caller_options, api_options, records, char_limit, emitted>>

\* the loop takes the next input row
batch_record ==
    /\ bpc = "loop"
    /\ next_record <= Len(records)
    /\ LET r == loop_body(batch, current_chars, records[next_record],
                          api_options.batch_size, char_limit)
       IN  /\ emitted' = emitted \o r.yields
           /\ batch' = r.batch
           /\ current_chars' = r.current_chars
    /\ next_record' = next_record + 1
    /\ UNCHANGED <<bpc, caller_options, api_options, records, char_limit>>

\* the input is exhausted: `if len(batch) > 1: yield batch`
batch_leftover ==
    /\ bpc = "loop"
    /\ next_record > Len(records)
    /\ emitted' = IF Len(batch) > 1 THEN Append(emitted, batch) ELSE emitted
    /\ bpc' = "done"
    /\ UNCHANGED <<caller_options, api_options, records, char_limit, next_record,
                   batch, current_chars>>

FieldValues == { <<>>, <<"\"">>, <<"U+00E9">>, <<"a", "a", "a">> }

\* rows of one field each, like self.fields
Rows == { <<v>> : v \in FieldValues }

RowSeqs == UNION { [1..k -> Rows] : k \in 0..MaxRecords }

\* what a caller passes as api_options: batch_size absent, zero or positive
CallerOptions ==
    { <<>> } \cup { [batch_size |-> k] : k \in 0..MaxBatchSize }

BatchIdle ==
    /\ bpc = "idle"
    /\ caller_options = <<>>
    /\ api_options = <<>>
    /\ records = <<>>
    /\ char_limit = 0
    /\ next_record = 0
    /\ batch = <<>>
    /\ current_chars = 0
    /\ emitted = <<>>

\* the operation as __init__ leaves it, and the arguments of the call
BatchInit ==
    /\ bpc = "new"
    /\ caller_options \in CallerOptions
    /\ api_options = [batch_size |-> BulkBatchSize(caller_options)]
    /\ records \in RowSeqs
    /\ char_limit \in Len(_serialize_csv_record(fields))..MaxCharLimit
    /\ next_record = 0
    /\ batch = <<>>
    /\ current_chars = 0
    /\ emitted = <<>>

----------------------------------------------------------------------------
(* BulkApiDmlOperation.load_records and get_results *)

DataOperationResult(id, success, error, created) ==
    [id |-> id, success |-> success, error |-> error, created |-> created]

\* self.job_id, as start() set it
job_id == "750"

\* the id bulk.post_batch returns for the k-th batch posted under the job
ServerBatchId(k) == <<"751", k>>

\* the post_batch requests for the batches ys, after `count` earlier ones
Posts(ys, count) ==
    [i \in 1..Len(ys) |->
        [job_id |-> job_id, batch_id |-> ServerBatchId(count + i), data |-> ys[i]]]

\* A mutation of load_records: each returned id is put in front of the list.
RecordIds_InFront(ids, returned) ==
    [i \in 1..Len(returned) |-> returned[Len(returned) + 1 - i]] \o ids

\* `self.batch_ids.append(...)` for each id post_batch returned
RecordIds(ids, returned) == ids \o returned

\* the body of `for count, csv_batch in enumerate(self._batch(...))`, run for
\* the batches the generator has just yielded
post_yielded ==
    LET yields == SubSeq(emitted', Len(emitted) + 1, Len(emitted'))
        sent == Posts(yields, Len(posted))
    IN  /\ posted' = posted \o sent
        /\ batch_ids' = RecordIds(batch_ids,
                            [i \in 1..Len(sent) |-> sent[i].batch_id])

\* load_records is called: `self.batch_ids = []`, the generator is created
load_begin ==
    /\ lpc = "new"
    /\ batch_begin
    /\ batch_ids' = <<>>
    /\ lpc' = "load"
    /\ UNCHANGED <<posted, fetched, yielded, origin, raised>>

\* the generator takes one more input row; what it yields is posted
load_record ==
    /\ lpc = "load"
    /\ batch_record
    /\ post_yielded
    /\ UNCHANGED <<lpc, fetched, yielded, origin, raised>>

\* the generator ends, its leftover batch is posted, load_records returns
load_leftover ==
    /\ lpc = "load"
    /\ batch_leftover
    /\ post_yielded
    /\ lpc' = "loaded"
    /\ UNCHANGED <<fetched, yielded, origin, raised>>

\* bulk.post_batch raises for a yielded batch: load_records propagates the
\* error with the generator suspended at that yield (the server may or may
\* not have received the batch)
load_raises ==
    /\ lpc = "load" /\ bpc = "loop"
    /\ LET yields ==
               IF next_record <= Len(records)
               THEN loop_body(batch, current_chars, records[next_record],
                              api_options.batch_size, char_limit).yields
               ELSE IF Len(batch) > 1 THEN <<batch>> ELSE <<>>
       IN  \E j \in 1..Len(yields) : \E received \in BOOLEAN :
              LET sent == Posts(SubSeq(yields, 1, j), Len(posted))
                  returned == [i \in 1..(j - 1) |-> sent[i].batch_id]
              IN  /\ emitted' = emitted \o SubSeq(yields, 1, j)
                  /\ posted' = posted \o (IF received THEN sent
                                          ELSE SubSeq(sent, 1, j - 1))
                  /\ batch_ids' = RecordIds(batch_ids, returned)
    /\ lpc' = "post_failed"
    /\ UNCHANGED <<bpc, caller_options, api_options, records, char_limit,
                   next_record, batch, current_chars>>
    /\ UNCHANGED <<fetched, yielded, origin, raised>>

\* rows of a result file: Id, Success, Created, Error
RowCreated == <<"001", "true", "true", "">>
RowFailed == <<"", "false", "false", "REQUIRED_FIELD_MISSING">>
ResultRows == {RowCreated, RowFailed}

\* the result files the server may hold for a batch of n data rows (the
\* header row left out)
ResultFiles(n) == [1..n -> ResultRows]

\* cumulusci.core.utils.process_bool_arg on the text of a result file
process_bool_arg(arg) ==
    CASE arg \in {"true", "1"} -> TRUE
      [] arg \in {"false", "0"} -> FALSE

\* the DataOperationResult get_results yields for one row
RowResult(row) ==
    LET success == process_bool_arg(row[2])
        created == process_bool_arg(row[3])
    IN  DataOperationResult(IF success THEN row[1] ELSE None, success,
                            IF ~success THEN row[4] ELSE None, created)

\* the data rows the server received under a batch id
DataRowsOf(batch_id) ==
    LET i == CHOOSE k \in 1..Len(posted) : posted[k].batch_id = batch_id
    IN  Tail(posted[i].data)

NoException == [type |-> None, message |-> <<>>]

\* BulkDataException(f"Failed to download results for batch {batch_id} (...)")
BulkDataException(batch_id) ==
    [type |-> "BulkDataException",
     message |-> <<"Failed to download results for batch", batch_id>>]

\* one pass of `for batch_id in self.batch_ids:` that reads the whole file:
\* the file is downloaded and each of its rows is yielded
get_results_batch ==
    /\ lpc \in {"loaded", "results"}
    /\ Len(fetched) < Len(batch_ids)
    /\ LET batch_id == batch_ids[Len(fetched) + 1]
           rows == DataRowsOf(batch_id)
       IN  /\ fetched' = Append(fetched, batch_id)
           /\ \E f \in ResultFiles(Len(rows)) :
                 yielded' = yielded \o [i \in 1..Len(rows) |-> RowResult(f[i])]
           /\ origin' = origin \o rows
    /\ lpc' = "results"
    /\ UNCHANGED <<batch_ids, posted, raised>>
    /\ UNCHANGED batchVars

\* A mutation of the failing pass: the error is noted and the loop goes on
\* with the next batch id.
get_results_raises_GoesOn ==
    /\ lpc \in {"loaded", "results"}
    /\ Len(fetched) < Len(batch_ids)
    /\ LET batch_id == batch_ids[Len(fetched) + 1]
       IN  /\ fetched' = Append(fetched, batch_id)
           /\ raised' = BulkDataException(batch_id)
    /\ lpc' = "results"
    /\ UNCHANGED <<batch_ids, posted, yielded, origin>>
    /\ UNCHANGED batchVars

\* one pass of the loop that fails: the download raises (no row yielded), or
\* reading raises after n rows were yielded; `except Exception` wraps the
\* error and the generator ends
get_results_raises ==
    /\ lpc \in {"loaded", "results"}
    /\ Len(fetched) < Len(batch_ids)
    /\ LET batch_id == batch_ids[Len(fetched) + 1]
           rows == DataRowsOf(batch_id)
       IN  /\ fetched' = Append(fetched, batch_id)
           /\ \E n \in 0..Len(rows) : \E f \in ResultFiles(n) :
                 /\ yielded' = yielded \o [i \in 1..n |-> RowResult(f[i])]
                 /\ origin' = origin \o SubSeq(rows, 1, n)
           /\ raised' = BulkDataException(batch_id)
    /\ lpc' = "raised"
    /\ UNCHANGED <<batch_ids, posted>>
    /\ UNCHANGED batchVars

\* the loop has gone through self.batch_ids: the generator is exhausted
get_results_end ==
    /\ lpc \in {"loaded", "results"}
    /\ Len(fetched) = Len(batch_ids)
    /\ lpc' = "exhausted"
    /\ UNCHANGED <<batch_ids, posted, fetched, yielded, origin, raised>>
    /\ UNCHANGED batchVars

LoadIdle ==
    /\ lpc = "idle"
    /\ batch_ids = <<>>
    /\ posted = <<>>
    /\ fetched = <<>>
    /\ yielded = <<>>
    /\ origin = <<>>
    /\ raised = NoException

\* the input rows load_records is followed with: a short and a long row
LoadRowSeqs ==
    UNION { [1..k -> { <<<<>>>>, <<<<"a", "a", "a">>>> }] : k \in 0..MaxRecords }

\* the operation after start(), before load_records is called
LoadInit ==
    /\ BatchInit
    /\ records \in LoadRowSeqs
    /\ lpc = "new"
    /\ batch_ids = <<>>
    /\ posted = <<>>
    /\ fetched = <<>>
    /\ yielded = <<>>
    /\ origin = <<>>
    /\ raised = NoException

----------------------------------------------------------------------------
(* RestApiDmlOperation *)

DEFAULT_REST_BATCH_SIZE == 200
MAX_REST_BATCH_SIZE == 200

\* The Python values of a row and of a payload: a str, a bool or None.
Str(s) == [type |-> "str", s |-> s, b |-> FALSE]
Bool(b) == [type |-> "bool", s |-> "", b |-> b]
NoneValue == [type |-> "NoneType", s |-> "", b |-> FALSE]

\* self.sobject, self.fields, and self.boolean_fields as describe() gives them
rest_sobject == "Account"
rest_fields == <<"Id", "Name", "IsActive">>
boolean_fields == {"IsActive"}

\* `x or False` takes False for these values of x
Falsy(v) == v = NoneValue \/ v = Str("") \/ v = Bool(FALSE)

\* process_bool_arg raises TypeError for this value
NotBoolean(v) == v.type = "str" /\ v.s \notin {"true", "1", "false", "0"}

\* `process_bool_arg(result[boolean_field] or False)`
CoerceBoolean(v) ==
    IF Falsy(v) THEN Bool(FALSE)
    ELSE IF v.type = "bool" THEN v
    ELSE Bool(process_bool_arg(v.s))

\* _record_to_json raises BulkDataException for this row
RecordRaises(rec) ==
    \E i \in 1..Len(rest_fields) :
        /\ rest_fields[i] \in boolean_fields
        /\ ~Falsy(rec[i]) /\ NotBoolean(rec[i])

\* `dict(zip(self.fields, rec))`
Zipped(rec) ==
    [k \in { rest_fields[i] : i \in 1..Len(rest_fields) } |->
        rec[CHOOSE i \in 1..Len(rest_fields) : rest_fields[i] = k]]

\* A mutation of _record_to_json: Update and Upsert drop empty fields as
\* Insert does.
_record_to_json_AlwaysOmits(rec) ==
    LET zipped == Zipped(rec)
        coerced == [k \in DOMAIN zipped |->
                       IF k \in boolean_fields THEN CoerceBoolean(zipped[k])
                       ELSE zipped[k]]
        kept == { k \in DOMAIN coerced :
                     coerced[k] # NoneValue /\ coerced[k] # Str("") }
        shaped == IF rest_operation \in {INSERT, UPDATE, UPSERT}
                  THEN [k \in kept |-> coerced[k]]
                  ELSE coerced
    IN  shaped @@ ("attributes" :> [type |-> rest_sobject])

\* the payload of one row (for a row that does not make it raise)
_record_to_json(rec) ==
    LET zipped == Zipped(rec)
        coerced == [k \in DOMAIN zipped |->
                       IF k \in boolean_fields THEN CoerceBoolean(zipped[k])
                       ELSE zipped[k]]
        kept == { k \in DOMAIN coerced :
                     coerced[k] # NoneValue /\ coerced[k] # Str("") }
        shaped == IF rest_operation = INSERT
                  THEN [k \in kept |-> coerced[k]]
                  ELSE IF rest_operation \in {UPDATE, UPSERT}
                  THEN [k \in DOMAIN coerced |->
                           IF coerced[k] = Str("") THEN NoneValue ELSE coerced[k]]
                  ELSE coerced
    IN  shaped @@ ("attributes" :> [type |-> rest_sobject])

\* A mutation of __init__: the caller's batch_size is not capped.
RestBatchSize_NoCap(options) ==
    IF "batch_size" \in DOMAIN options /\ options.batch_size # 0
    THEN options.batch_size
    ELSE DEFAULT_REST_BATCH_SIZE

\* `min(self.api_options.get("batch_size") or DEFAULT_REST_BATCH_SIZE,
\*      MAX_REST_BATCH_SIZE)`
RestBatchSize(options) ==
    Min(IF "batch_size" \in DOMAIN options /\ options.batch_size # 0
        THEN options.batch_size
        ELSE DEFAULT_REST_BATCH_SIZE,
        MAX_REST_BATCH_SIZE)

\* iterate_in_chunks(n, records): the chunk that follows `taken` rows
NextChunk(n, rows, taken) == SubSeq(rows, taken + 1, Min(taken + n, Len(rows)))

\* the verb of the composite request
method ==
    (INSERT :> "POST") @@ (UPDATE :> "PATCH") @@ (DELETE :> "DELETE")
    @@ (UPSERT :> "PATCH")

\* ---- the composite/sobjects endpoint ----

\* error entries of a failed row
RequiredFieldMissing ==
    [statusCode |-> "REQUIRED_FIELD_MISSING",
     message |-> "Required fields are missing: [Name]", fields |-> <<"Name">>]
InvalidValue ==
    [statusCode |-> "INVALID_TYPE_ON_FIELD_IN_RECORD",
     message |-> "Active: value not of required type", fields |-> <<"IsActive", "Name">>]

\* the per-row entries of a response: a saved row, a failed row, and a failed
\* row whose id the API echoes
RowSaved ==
    [kind |-> "dict", id |-> "001", success |-> TRUE, errors |-> <<>>,
     created |-> IF rest_operation = UPSERT THEN TRUE ELSE None]
RowRejected ==
    [kind |-> "dict", id |-> None, success |-> FALSE,
     errors |-> <<RequiredFieldMissing, InvalidValue>>, created |-> None]
RowRejectedWithId ==
    [kind |-> "dict", id |-> "001", success |-> FALSE,
     errors |-> <<InvalidValue>>,
     created |-> IF rest_operation = UPSERT THEN FALSE ELSE None]

\* the responses the server may give to a request that carries n rows, one
\* entry per row; for a large request: all rows saved, or the first rejected
Responses(n) ==
    IF n <= MaxRecords
    THEN [1..n -> {RowSaved, RowRejected, RowRejectedWithId}]
    ELSE { [i \in 1..n |-> RowSaved],
           [i \in 1..n |-> IF i = 1 THEN RowRejected ELSE RowSaved] }

RECURSIVE join(_, _)
\* sep.join(strings)
join(sep, strings) ==
    IF strings = <<>> THEN ""
    ELSE IF Len(strings) = 1 THEN Head(strings)
    ELSE Head(strings) \o sep \o join(sep, Tail(strings))

\* the request load_records sends for a chunk (`ids` is the list that is
\* joined with commas onto the url of a Delete)
Request(chunk) ==
    LET update_key == "update_key" \in DOMAIN rest_api_options
    IN  IF rest_operation = DELETE
        THEN [method |-> method[rest_operation],
              url |-> "composite/sobjects?ids=",
              ids |-> [i \in 1..Len(chunk) |-> _record_to_json(chunk[i])["Id"].s],
              json |-> None]
        ELSE [method |-> method[rest_operation],
              url |-> IF update_key
                      THEN "composite/sobjects/" \o rest_sobject \o "/"
                           \o rest_api_options.update_key
                      ELSE "composite/sobjects",
              ids |-> <<>>,
              json |-> [allOrNone |-> FALSE,
                        records |-> [i \in 1..Len(chunk) |->
                                        _record_to_json(chunk[i])]]]

\* `assert self.operation == DataOperationType.UPSERT` fails
AssertFails ==
    /\ rest_operation # DELETE
    /\ "update_key" \in DOMAIN rest_api_options
    /\ rest_operation # UPSERT

\* A mutation of the end of load_records: every response counts as processed,
\* failed rows are not counted at all.
LoadJobResult_NoRowErrors(res) ==
    DataOperationJobResult(SUCCESS, <<>>, Len(res), 0)

\* row_errors and self.job_result at the end of load_records
LoadJobResult(res) ==
    LET row_errors == Cardinality({ i \in 1..Len(res) : ~res[i].success })
    IN  DataOperationJobResult(IF row_errors = 0 THEN SUCCESS ELSE ROW_FAILURE,
                               <<>>, Len(res), row_errors)

\* load_records is called: `self.results = []`, the verb is looked up
rest_load_begin ==
    /\ rpc = "new"
    /\ results' = <<>>
    /\ IF rest_operation \in DOMAIN method
       THEN rpc' = "chunks" /\ UNCHANGED rest_exc
       ELSE rpc' = "failed" /\ rest_exc' = "KeyError"
    /\ UNCHANGED <<rest_operation, rest_caller_options, rest_api_options,
                   rest_records, consumed, requests, queries, rest_job_result,
                   rest_yielded>>

\* one pass of `for chunk in iterate_in_chunks(...)`: the request is sent and
\* its response is buffered
rest_load_chunk ==
    /\ rpc = "chunks"
    /\ consumed < Len(rest_records)
    /\ LET chunk == NextChunk(rest_api_options.batch_size, rest_records, consumed)
       IN  /\ ~AssertFails
           /\ \A i \in 1..Len(chunk) : ~RecordRaises(chunk[i])
           /\ requests' = Append(requests, Request(chunk))
           /\ \E response \in Responses(Len(chunk)) :
                 results' = results \o response
           /\ consumed' = consumed + Len(chunk)
    /\ UNCHANGED <<rpc, rest_operation, rest_caller_options, rest_api_options,
                   rest_records, queries, rest_job_result, rest_yielded,
                   rest_exc>>

\* A mutation of load_records: job_result is set although the loop raised.
rest_load_raises_SetsJobResult ==
    /\ rpc = "chunks"
    /\ consumed < Len(rest_records)
    /\ LET chunk == NextChunk(rest_api_options.batch_size, rest_records, consumed)
       IN  IF AssertFails
           THEN rest_exc' = "AssertionError" /\ UNCHANGED requests
           ELSE IF \E i \in 1..Len(chunk) : RecordRaises(chunk[i])
           THEN rest_exc' = "BulkDataException" /\ UNCHANGED requests
           ELSE /\ rest_exc' = "transport"
                /\ requests' = Append(requests, Request(chunk))
    /\ rpc' = "failed"
    /\ rest_job_result' = LoadJobResult(results)
    /\ UNCHANGED <<rest_operation, rest_caller_options, rest_api_options,
                   rest_records, consumed, queries, results, rest_yielded>>
\* one pass of the loop that raises: the assertion on update_key, a row that
\* is not convertible (BulkDataException), or the request itself
rest_load_raises ==
    /\ rpc = "chunks"
    /\ consumed < Len(rest_records)
    /\ LET chunk == NextChunk(rest_api_options.batch_size, rest_records, consumed)
       IN  IF AssertFails
           THEN rest_exc' = "AssertionError" /\ UNCHANGED requests
           ELSE IF \E i \in 1..Len(chunk) : RecordRaises(chunk[i])
           THEN rest_exc' = "BulkDataException" /\ UNCHANGED requests
           ELSE /\ rest_exc' = "transport"
                /\ requests' = Append(requests, Request(chunk))
    /\ rpc' = "failed"
    /\ UNCHANGED <<rest_operation, rest_caller_options, rest_api_options,
                   rest_records, consumed, queries, results, rest_job_result,
                   rest_yielded>>

\* the loop is over: row_errors is counted and self.job_result is set
rest_load_end ==
    /\ rpc = "chunks"
    /\ consumed = Len(rest_records)
    /\ rest_job_result' = LoadJobResult(results)
    /\ rpc' = "done"
    /\ UNCHANGED <<rest_operation, rest_caller_options, rest_api_options,
                   rest_records, consumed, requests, queries, results,
                   rest_yielded, rest_exc>>

\* ---- select_records ----

\* DEFAULT_DECLARATIONS.get(self.sobject): the declared filter, if any
where_clause == "Name != 'Sample Account for Entitlements'"

\* the query of random_selection
SelectQuery(num_records) ==
    [soql |-> "SELECT Id FROM " \o rest_sobject \o " WHERE " \o where_clause
              \o " LIMIT " \o ToString(num_records)]

\* query_results["records"] when the org holds m matching records
QueryRecords(m) == [i \in 1..m |-> [Id |-> "003" \o ToString(i)]]

\* the values of `return [], error_message`
EmptyList == [kind |-> "list"]
ErrorMessage == [kind |-> "str"]

RECURSIVE Repeat(_, _, _)
\* `while len(selected_records) < num_records: extend(original_records)`
Repeat(selected, original, num_records) ==
    IF Len(selected) < num_records
    THEN Repeat(selected \o original, original, num_records)
    ELSE selected

\* A mutation of random_selection: the padded list is not cut to num_records.
random_selection_NotCut(num_records, query_records) ==
    IF query_records = <<>> THEN <<EmptyList, ErrorMessage>>
    ELSE LET selected_records ==
                 [i \in 1..Len(query_records) |->
                     [kind |-> "dict", success |-> TRUE,
                      id |-> query_records[i].Id, errors |-> <<>>,
                      created |-> None]]
         IN  IF Len(selected_records) < num_records
             THEN Repeat(selected_records, selected_records, num_records)
             ELSE selected_records

\* what random_selection returns when the query returned query_records (a
\* returned tuple is written as the list of its two members)
random_selection(num_records, query_records) ==
    IF query_records = <<>> THEN <<EmptyList, ErrorMessage>>
    ELSE LET selected_records ==
                 [i \in 1..Len(query_records) |->
                     [kind |-> "dict", success |-> TRUE,
                      id |-> query_records[i].Id, errors |-> <<>>,
                      created |-> None]]
         IN  IF Len(selected_records) < num_records
             THEN SubSeq(Repeat(selected_records, selected_records, num_records),
                         1, num_records)
             ELSE selected_records

\* the numbers of records the query with LIMIT num_records may return: for a
\* long input none, all, or a few less than asked for
Matching(num_records) ==
    { m \in 0..num_records :
         num_records <= MaxRecords \/ m = 0 \/ num_records - m <= MaxRecords }

\* `DataOperationStatus.SUCCESS if not len(selected_records) else JOB_FAILURE`
SelectStatus(selected_records) ==
    IF Len(selected_records) = 0 THEN SUCCESS ELSE JOB_FAILURE

\* select_records: the rows are counted, one query is sent, its records are
\* padded and buffered, self.job_result is set
select_records ==
    /\ rpc = "new"
    /\ LET num_records == Len(rest_records)
       IN  \E m \in Matching(num_records) :
              LET selected_records == random_selection(num_records, QueryRecords(m))
              IN  /\ queries' = Append(queries,
                                   [query |-> SelectQuery(num_records),
                                    returned |-> m, raised |-> FALSE])
                  /\ results' = selected_records
                  /\ rest_job_result' =
                        DataOperationJobResult(SelectStatus(selected_records),
                                               <<>>, Len(selected_records), 0)
    /\ rpc' = "done"
    /\ UNCHANGED <<rest_operation, rest_caller_options, rest_api_options,
                   rest_records, consumed, requests, rest_yielded, rest_exc>>

\* select_records when self.sf.query raises: `except Exception` returns
\* `[], error_message`
select_records_query_raises ==
    /\ rpc = "new"
    /\ LET selected_records == <<EmptyList, ErrorMessage>>
       IN  /\ queries' = Append(queries,
                            [query |-> SelectQuery(Len(rest_records)),
                             returned |-> 0, raised |-> TRUE])
           /\ results' = selected_records
           /\ rest_job_result' =
                 DataOperationJobResult(SelectStatus(selected_records),
                                        <<>>, Len(selected_records), 0)
    /\ rpc' = "done"
    /\ UNCHANGED <<rest_operation, rest_caller_options, rest_api_options,
                   rest_records, consumed, requests, rest_yielded, rest_exc>>

\* ---- get_results ----

\* one line of the error text
ErrorLine(e) ==
    e.statusCode \o ": " \o e.message \o " (" \o join(",", e.fields) \o ")"

\* A mutation of _convert: the error entries are not reported.
_convert_NoErrors(res) ==
    LET created == IF rest_operation = INSERT THEN TRUE
                   ELSE IF rest_operation \in {UPDATE, SELECT} THEN FALSE
                   ELSE res.created
    IN  DataOperationResult(res.id, res.success, "", created)

\* _convert(res), for a buffered response entry
_convert(res) ==
    LET errors == IF res.errors # <<>>
                  THEN join("\n", [i \in 1..Len(res.errors) |->
                                      ErrorLine(res.errors[i])])
                  ELSE ""
        created == IF rest_operation = INSERT THEN TRUE
                   ELSE IF rest_operation \in {UPDATE, SELECT} THEN FALSE
                   ELSE res.created
    IN  DataOperationResult(res.id, res.success, errors, created)

\* the buffered entries _convert can take before one without .get() is met
Convertible(res) ==
    LET bad == { i \in 1..Len(res) : res[i].kind # "dict" }
    IN  IF bad = {} THEN Len(res)
        ELSE (CHOOSE i \in bad : \A j \in bad : i <= j) - 1

\* get_results is consumed to its end: every buffered entry is converted and
\* yielded; an entry that is no mapping ends the generator with AttributeError
rest_get_results ==
    /\ rpc = "done"
    /\ LET n == Convertible(results)
       IN  /\ rest_yielded' = [i \in 1..n |-> _convert(results[i])]
           /\ IF n = Len(results)
              THEN rpc' = "yielded" /\ UNCHANGED rest_exc
              ELSE rpc' = "failed" /\ rest_exc' = "AttributeError"
    /\ UNCHANGED <<rest_operation, rest_caller_options, rest_api_options,
                   rest_records, consumed, requests, queries, results,
                   rest_job_result>>

\* ---- the operation as __init__ leaves it, and the input rows ----

RestOperations == {INSERT, UPDATE, UPSERT, DELETE, SELECT}

\* what a caller passes as api_options
RestCallerOptions ==
    { <<>>, [update_key |-> "Ext__c"] }
    \cup { [batch_size |-> k] :
             k \in 0..MaxBatchSize
                   \cup {MAX_REST_BATCH_SIZE, MAX_REST_BATCH_SIZE + 1} }

RestRows ==
    { <<Str("001"), Str("x"), Str("true")>>,
      <<Str("002"), Str(""), Str("")>>,
      <<Str("003"), NoneValue, Str("yes")>> }

RestRowSeqs == UNION { [1..k -> RestRows] : k \in 0..MaxRecords }

\* inputs longer than the largest request
LongRowSeqs ==
    { [i \in 1..n |-> <<Str("001"), Str("x"), Str("true")>>] :
        n \in {MAX_REST_BATCH_SIZE, MAX_REST_BATCH_SIZE + 1} }

RestIdle ==
    /\ rpc = "idle"
    /\ rest_operation = None
    /\ rest_caller_options = <<>>
    /\ rest_api_options = <<>>
    /\ rest_records = <<>>
    /\ consumed = 0
    /\ requests = <<>>
    /\ queries = <<>>
    /\ results = <<>>
    /\ rest_job_result = NoJobResult
    /\ rest_yielded = <<>>
    /\ rest_exc = None

RestInit ==
    /\ rpc = "new"
    /\ rest_operation \in RestOperations
    /\ rest_caller_options \in RestCallerOptions
    /\ rest_api_options =
          ("batch_size" :> RestBatchSize(rest_caller_options)) @@ rest_caller_options
    /\ rest_records \in RestRowSeqs \cup LongRowSeqs
    /\ Len(rest_records) > MaxRecords =>
          rest_api_options.batch_size >= MAX_REST_BATCH_SIZE
    /\ consumed = 0
    /\ requests = <<>>
    /\ queries = <<>>
    /\ results = <<>>
    /\ rest_job_result = NoJobResult
    /\ rest_yielded = <<>>
    /\ rest_exc = None

----------------------------------------------------------------------------
(* RestApiQueryOperation: query and get_results *)

MaxPages == 3            \* pages of a result set
MaxPageSize == 2         \* records of one page
MaxQueries == 2          \* query() calls followed on one operation
MaxRuns == 2             \* get_results calls followed after one query()

\* self.fields
query_fields == <<"Id", "Name">>

\* the k-th record of the result set: its Name is null, a str or a bool
QueryRecord(k) ==
    [Id |-> Str("00" \o ToString(k)),
     Name |-> CASE k % 3 = 1 -> NoneValue
                [] k % 3 = 2 -> Str("n")
                [] OTHER -> Bool(TRUE)]

\* the nextRecordsUrl that leads to page i
Locator(i) == "/query/01g-" \o ToString(i)

\* the response documents of a result set whose pages hold sizes[i] records:
\* every page but the last is not done and names the next one
ResultSet(sizes) ==
    [i \in 1..Len(sizes) |->
        [totalSize |-> sum(sizes),
         done |-> (i = Len(sizes)),
         nextRecordsUrl |-> IF i = Len(sizes) THEN None ELSE Locator(i + 1),
         records |-> [j \in 1..sizes[i] |->
                         QueryRecord(sum(SubSeq(sizes, 1, i - 1)) + j)]]]

ResultSets ==
    { ResultSet(sizes) :
        sizes \in UNION { [1..n -> 0..MaxPageSize] : n \in 1..MaxPages } }

\* the document sf.query_more returns for a nextRecordsUrl
query_more(url) == pages[CHOOSE i \in 1..Len(pages) : Locator(i) = url]

\* the page of the result set that self.response is
PageOf(r) == CHOOSE i \in 1..Len(pages) : pages[i] = r

\* str(v) of a value of a record
str(v) ==
    CASE v.type = "str" -> v.s
      [] v.type = "bool" -> (IF v.b THEN "True" ELSE "False")
      [] OTHER -> "None"

\* A mutation of convert: a null is passed to str() like any other value.
convert_StrOfNone(rec) ==
    [i \in 1..Len(query_fields) |-> str(rec[query_fields[i]])]

\* convert(rec) of get_results
convert(rec) ==
    [i \in 1..Len(query_fields) |->
        IF rec[query_fields[i]] # NoneValue THEN str(rec[query_fields[i]])
        ELSE ""]

NoResponse ==
    [totalSize |-> 0, done |-> TRUE, nextRecordsUrl |-> None, records |-> <<>>]

\* query(): sf.query returns the first page, job_result is set
rq_query ==
    /\ qpc \in {"new", "queried", "exhausted"}
    /\ Cardinality({ i \in 1..Len(q_calls) : q_calls[i].call = "query" })
          < MaxQueries
    /\ q_calls' = Append(q_calls, [call |-> "query", url |-> None])
    /\ q_response' = pages[1]
    /\ query_job_result' =
          DataOperationJobResult(SUCCESS, <<>>, q_response'.totalSize, 0)
    /\ q_runs' = 0
    /\ qpc' = "queried"
    /\ UNCHANGED <<pages, q_pos, q_yielded, q_started>>

\* query(): sf.query raises, nothing is assigned
rq_query_raises ==
    /\ qpc \in {"new", "queried", "exhausted"}
    /\ Cardinality({ i \in 1..Len(q_calls) : q_calls[i].call = "query" })
          < MaxQueries
    /\ q_calls' = Append(q_calls, [call |-> "query", url |-> None])
    /\ qpc' = "failed"
    /\ UNCHANGED <<pages, q_response, query_job_result, q_pos, q_yielded,
                   q_started, q_runs>>

\* get_results() is called and its generator is started: `while True:` and
\* the generator expression over self.response["records"]
rq_get_results ==
    /\ qpc \in {"queried", "exhausted"}
    /\ q_runs < MaxRuns
    /\ q_runs' = q_runs + 1
    /\ q_started' = PageOf(q_response)
    /\ q_pos' = 0
    /\ q_yielded' = <<>>
    /\ qpc' = "page"
    /\ UNCHANGED <<pages, q_response, query_job_result, q_calls>>

\* `yield from (convert(rec) for rec in self.response["records"])`: one row
rq_yield ==
    /\ qpc = "page"
    /\ q_pos < Len(q_response.records)
    /\ q_yielded' = Append(q_yielded, convert(q_response.records[q_pos + 1]))
    /\ q_pos' = q_pos + 1
    /\ UNCHANGED <<qpc, pages, q_response, query_job_result, q_calls, q_started,
                   q_runs>>

\* the page is used up and is not done: sf.query_more(nextRecordsUrl)
rq_more ==
    /\ qpc = "page"
    /\ q_pos = Len(q_response.records)
    /\ ~q_response.done
    /\ q_calls' = Append(q_calls, [call |-> "query_more",
                                   url |-> q_response.nextRecordsUrl])
    /\ q_response' = query_more(q_response.nextRecordsUrl)
    /\ q_pos' = 0
    /\ UNCHANGED <<qpc, pages, query_job_result, q_yielded, q_started, q_runs>>

\* sf.query_more raises: the generator ends with the error
rq_more_raises ==
    /\ qpc = "page"
    /\ q_pos = Len(q_response.records)
    /\ ~q_response.done
    /\ q_calls' = Append(q_calls, [call |-> "query_more",
                                   url |-> q_response.nextRecordsUrl])
    /\ qpc' = "failed"
    /\ UNCHANGED <<pages, q_response, query_job_result, q_pos, q_yielded,
                   q_started, q_runs>>

\* A mutation of get_results: the generator rewinds to the first page when
\* it returns.
rq_return_Rewinds ==
    /\ qpc = "page"
    /\ q_pos = Len(q_response.records)
    /\ q_response.done
    /\ q_response' = pages[1]
    /\ qpc' = "exhausted"
    /\ UNCHANGED <<pages, query_job_result, q_pos, q_yielded, q_calls,
                   q_started, q_runs>>

\* the page is used up and is done: `return`
rq_return ==
    /\ qpc = "page"
    /\ q_pos = Len(q_response.records)
    /\ q_response.done
    /\ qpc' = "exhausted"
    /\ UNCHANGED <<pages, q_response, query_job_result, q_pos, q_yielded,
                   q_calls, q_started, q_runs>>

QueryIdle ==
    /\ qpc = "idle"
    /\ pages = <<>>
    /\ q_response = NoResponse
    /\ query_job_result = NoJobResult
    /\ q_pos = 0
    /\ q_yielded = <<>>
    /\ q_calls = <<>>
    /\ q_started = 0
    /\ q_runs = 0

\* the operation as __init__ leaves it (self.response is assigned by
\* query()), and the result set the server will return
QueryInit ==
    /\ qpc = "new"
    /\ pages \in ResultSets
    /\ q_response = NoResponse
    /\ query_job_result = NoJobResult
    /\ q_pos = 0
    /\ q_yielded = <<>>
    /\ q_calls = <<>>
    /\ q_started = 0
    /\ q_runs = 0
----------------------------------------------------------------------------
(* download_file, as get_results of BulkApiDmlOperation and of             *)
(* BulkApiQueryOperation use it: one temporary file per result file        *)

MaxFiles == 2            \* result files of one get_results call

\* the lines of a result file: the header row, rows the loop body reads
\* without an error, and rows at which reading raises
FileHeader == "header"
NotFound == "Records not found for this query"
RowOk == "row"
RowBad == "unreadable row"

\* what a result file may hold (the empty file has no header row)
FileContents ==
    { <<>>, <<FileHeader>>, <<FileHeader, RowOk>>, <<FileHeader, RowBad>>,
      <<FileHeader, RowOk, RowOk>>, <<FileHeader, RowOk, RowBad>>,
      <<NotFound>> }

\* the exception get_results raises for an error e inside its loop:
\* BulkApiDmlOperation wraps every Exception, BulkApiQueryOperation none
Propagated(e) == IF d_variant = "dml" THEN "BulkDataException" ELSE e

\* local `path` of download_file
path == mkstemps

\* the `finally:` clause of download_file
unlink == tempfiles' = tempfiles \ {path}

\* the for loop takes the next id: download_file is entered, tempfile.mkstemp
\* creates the file
download_mkstemp ==
    /\ dpc = "loop"
    /\ d_next <= Len(d_files)
    /\ mkstemps' = mkstemps + 1
    /\ tempfiles' = tempfiles \cup {mkstemps'}
    /\ dpc' = "created"
    /\ UNCHANGED <<d_variant, d_files, d_next, d_unread, d_yielded, d_exc>>

\* tempfile.mkstemp raises: no file is created, and the `finally:` clause
\* reads `path` before it was bound
download_mkstemp_raises ==
    /\ dpc = "loop"
    /\ d_next <= Len(d_files)
    /\ d_exc' = Propagated("UnboundLocalError")
    /\ dpc' = "failed"
    /\ UNCHANGED <<d_variant, d_files, d_next, tempfiles, mkstemps, d_unread,
                   d_yielded>>

\* requests.get, raise_for_status, the chunks are written and the file is
\* opened for reading: the body of the `with` block begins
download_get ==
    /\ dpc = "created"
    /\ d_unread' = d_files[d_next]
    /\ dpc' = "header"
    /\ UNCHANGED <<d_variant, d_files, d_next, tempfiles, mkstemps, d_yielded,
                   d_exc>>

\* A mutation of download_file: the file is removed only when the block is
\* left normally.
download_get_raises_KeepsFile ==
    /\ dpc = "created"
    /\ d_exc' = Propagated("HTTPError")
    /\ dpc' = "failed"
    /\ UNCHANGED <<d_variant, d_files, d_next, tempfiles, mkstemps, d_unread,
                   d_yielded>>

\* requests.get, raise_for_status or iter_content raises
download_get_raises ==
    /\ dpc = "created"
    /\ unlink
    /\ d_exc' = Propagated("HTTPError")
    /\ dpc' = "failed"
    /\ UNCHANGED <<d_variant, d_files, d_next, mkstemps, d_unread, d_yielded>>

\* `next(reader)`: the header row is read; BulkApiQueryOperation returns
\* when it is the "Records not found" line
read_header ==
    /\ dpc = "header"
    /\ d_unread # <<>>
    /\ IF d_variant = "query" /\ Head(d_unread) = NotFound
       THEN unlink /\ dpc' = "exhausted" /\ UNCHANGED d_unread
       ELSE dpc' = "rows" /\ d_unread' = Tail(d_unread) /\ UNCHANGED tempfiles
    /\ UNCHANGED <<d_variant, d_files, d_next, mkstemps, d_yielded, d_exc>>

\* `next(reader)` on a file without a line raises StopIteration (a
\* RuntimeError once it leaves the generator)
read_header_raises ==
    /\ dpc = "header"
    /\ d_unread = <<>>
    /\ unlink
    /\ d_exc' = Propagated("RuntimeError")
    /\ dpc' = "failed"
    /\ UNCHANGED <<d_variant, d_files, d_next, mkstemps, d_unread, d_yielded>>

\* the reader gives one more row and get_results yields for it
read_row ==
    /\ dpc \in {"rows", "yielded"}
    /\ d_unread # <<>> /\ Head(d_unread) = RowOk
    /\ d_unread' = Tail(d_unread)
    /\ d_yielded' = d_yielded + 1
    /\ dpc' = "yielded"
    /\ UNCHANGED <<d_variant, d_files, d_next, tempfiles, mkstemps, d_exc>>

\* reading the next row raises (csv.Error, or process_bool_arg on its text)
read_row_raises ==
    /\ dpc \in {"rows", "yielded"}
    /\ d_unread # <<>> /\ Head(d_unread) = RowBad
    /\ unlink
    /\ d_exc' = Propagated("Error")
    /\ dpc' = "failed"
    /\ UNCHANGED <<d_variant, d_files, d_next, mkstemps, d_unread, d_yielded>>

\* the reader is at the end of the file: the `with` block is left
file_done ==
    /\ dpc \in {"rows", "yielded"}
    /\ d_unread = <<>>
    /\ unlink
    /\ d_next' = d_next + 1
    /\ dpc' = "loop"
    /\ UNCHANGED <<d_variant, d_files, mkstemps, d_unread, d_yielded, d_exc>>

\* the caller closes the generator while it is suspended at a yield:
\* GeneratorExit is raised there and the `finally:` clause runs
generator_close ==
    /\ dpc = "yielded"
    /\ unlink
    /\ dpc' = "closed"
    /\ UNCHANGED <<d_variant, d_files, d_next, mkstemps, d_unread, d_yielded,
                   d_exc>>

\* the for loop is over: the row sequence is exhausted
results_end ==
    /\ dpc = "loop"
    /\ d_next > Len(d_files)
    /\ dpc' = "exhausted"
    /\ UNCHANGED <<d_variant, d_files, d_next, tempfiles, mkstemps, d_unread,
                   d_yielded, d_exc>>

FileIdle ==
    /\ dpc = "idle"
    /\ d_variant = None
    /\ d_files = <<>>
    /\ d_next = 0
    /\ tempfiles = {}
    /\ mkstemps = 0
    /\ d_unread = <<>>
    /\ d_yielded = 0
    /\ d_exc = None

\* get_results is called on an operation whose job is over
FileInit ==
    /\ dpc = "loop"
    /\ d_variant \in {"dml", "query"}
    /\ d_files \in UNION { [1..n -> FileContents] : n \in 0..MaxFiles }
    /\ d_next = 1
    /\ tempfiles = {}
    /\ mkstemps = 0
    /\ d_unread = <<>>
    /\ d_yielded = 0
    /\ d_exc = None
----------------------------------------------------------------------------
(* A DML operation from __init__ on, and get_prev_record_values            *)

\* __init__ of BulkApiDmlOperation: the caller's mapping is copied and the
\* batch size is written into the copy
bulk_construct ==
    /\ lpc = "unbuilt" /\ bpc = "unbuilt"
    /\ api_options' =
          ("batch_size" :> BulkBatchSize(caller_options)) @@ caller_options
    /\ bpc' = "new"
    /\ lpc' = "new"
    /\ UNCHANGED <<caller_options, records, char_limit, next_record, batch,
                   current_chars, emitted>>
    /\ UNCHANGED <<batch_ids, posted, fetched, yielded, origin, raised>>
    /\ UNCHANGED prevVars

\* A mutation of __init__: the batch size is written into the mapping the
\* caller passed.
rest_construct_NoCopy ==
    /\ rpc = "unbuilt"
    /\ rest_api_options' =
          ("batch_size" :> RestBatchSize(rest_caller_options))
              @@ rest_caller_options
    /\ rest_caller_options' = rest_api_options'
    /\ rpc' = "new"
    /\ UNCHANGED <<rest_operation, rest_records, consumed, requests, queries,
                   results, rest_job_result, rest_yielded, rest_exc>>
    /\ UNCHANGED prevVars

\* __init__ of RestApiDmlOperation: the caller's mapping is copied and the
\* capped batch size is written into the copy
rest_construct ==
    /\ rpc = "unbuilt"
    /\ rest_api_options' =
          ("batch_size" :> RestBatchSize(rest_caller_options))
              @@ rest_caller_options
    /\ rpc' = "new"
    /\ UNCHANGED <<rest_operation, rest_caller_options, rest_records, consumed,
                   requests, queries, results, rest_job_result, rest_yielded,
                   rest_exc>>
    /\ UNCHANGED prevVars

\* `assert self.operation in [DataOperationType.UPSERT, DataOperationType.UPDATE]`
PrevAssertFails(operation) == operation \notin {UPSERT, UPDATE}

\* local `update_key` of get_prev_record_values
update_key(operation, options) ==
    IF operation = UPSERT
    THEN IF "update_key" \in DOMAIN options THEN options.update_key ELSE None
    ELSE "Id"

\* one call on self.bulk or self.sf
Call(name, arg) == [call |-> name, arg |-> arg]

\* the records the org returns for a query on the values `values` of the
\* update key: one per value when the org holds them, with every relevant
\* field
PrevRecords(relevant_fields, key, values, found) ==
    IF found
    THEN [i \in 1..Len(values) |->
             [f \in relevant_fields |-> IF f = key THEN values[i] ELSE "old"]]
    ELSE <<>>

\* ---- BulkApiDmlOperation.get_prev_record_values ----

RECURSIVE decode(_)
\* bytes.decode("utf-8")
decode(bytes) ==
    IF bytes = <<>> THEN <<>>
    ELSE IF Head(bytes) = 195
         THEN <<"U+00E9">> \o decode(Tail(Tail(bytes)))
         ELSE <<CHOOSE c \in {"a", "I", "d", "\"", ",", "\r", "\n"} :
                    utf8(c) = <<Head(bytes)>> >> \o decode(Tail(bytes))

RECURSIVE ReadQuoted(_)
\* the csv reader inside a quoted field: a doubled quote is a quote, a single
\* one ends the field
ReadQuoted(chars) ==
    IF chars = <<>> THEN [field |-> "", rest |-> <<>>]
    ELSE IF Head(chars) = "\""
         THEN IF Len(chars) >= 2 /\ chars[2] = "\""
              THEN LET r == ReadQuoted(Tail(Tail(chars)))
                   IN  [field |-> "\"" \o r.field, rest |-> r.rest]
              ELSE [field |-> "", rest |-> Tail(chars)]
         ELSE LET r == ReadQuoted(Tail(chars))
              IN  [field |-> Head(chars) \o r.field, rest |-> r.rest]

RECURSIVE ReadLine(_)
\* the csv reader on one line: its fields, as strings
ReadLine(chars) ==
    IF chars = <<>> \/ Head(chars) # "\"" THEN <<>>
    ELSE LET r == ReadQuoted(Tail(chars))
         IN  <<r.field>>
             \o (IF r.rest # <<>> /\ Head(r.rest) = ","
                 THEN ReadLine(Tail(r.rest)) ELSE <<>>)

\* csv.DictReader([line.decode("utf-8") for line in batch]): one mapping per
\* data line, keyed by the fields of the first line
DictReader(b) ==
    LET names == ReadLine(decode(Head(b)))
    IN  [i \in 1..(Len(b) - 1) |->
            LET values == ReadLine(decode(b[i + 1]))
            IN  [k \in { names[j] : j \in 1..Len(names) } |->
                    values[CHOOSE j \in 1..Len(names) : names[j] = k]]]

\* set(self.fields + ["Id"]) of the batch-oriented variant
bulk_relevant_fields ==
    { ReadLine(decode(_serialize_csv_record(fields)))[j] : j \in 1..Len(fields) }
    \cup {"Id"}

\* `rec[update_key]` raises KeyError for the rows of this batch
BulkKeyError(b) ==
    /\ Len(b) > 1
    /\ update_key(bulk_operation, api_options) \notin DOMAIN DictReader(b)[1]

\* the calls made for one batch: the query job is created, the query is
\* submitted, waited for and closed, and its results are fetched
BulkPrevCalls(b) ==
    LET key == update_key(bulk_operation, api_options)
        update_key_values == [i \in 1..(Len(b) - 1) |-> DictReader(b)[i][key]]
        query == [fields |-> bulk_relevant_fields, sobject |-> "Account",
                  update_key |-> key, values |-> update_key_values]
    IN  <<Call("create_query_job", "Account"), Call("query", query),
          Call("wait_for_batch", job_id), Call("close_job", job_id),
          Call("get_all_results_for_query_batch", job_id)>>

\* the body of the loop over the batches of _batch for the batches the
\* generator has just yielded: calls made, values collected, error raised
RECURSIVE BulkPrevPass(_, _)
BulkPrevPass(ys, found) ==
    IF ys = <<>> THEN [calls |-> <<>>, values |-> <<>>, exc |-> None]
    ELSE IF BulkKeyError(Head(ys))
         THEN [calls |-> <<>>, values |-> <<>>, exc |-> "KeyError"]
         ELSE LET calls == BulkPrevCalls(Head(ys))
                  more == BulkPrevPass(Tail(ys), found)
              IN  [calls |-> calls \o more.calls,
                   values |-> PrevRecords(bulk_relevant_fields,
                                          calls[2].arg.update_key,
                                          calls[2].arg.values, found)
                              \o more.values,
                   exc |-> more.exc]

\* the effect of a pass of the loop on what get_prev_record_values holds
bulk_prev_yielded(next_lpc) ==
    LET yields == SubSeq(emitted', Len(emitted) + 1, Len(emitted'))
    IN  \E found \in BOOLEAN :
           LET pass == BulkPrevPass(yields, found)
           IN  /\ prev_calls' = prev_calls \o pass.calls
               /\ prev_record_values' = prev_record_values \o pass.values
               /\ prev_exc' = pass.exc
               /\ lpc' = IF pass.exc = None THEN next_lpc ELSE "prev_failed"

\* A mutation of get_prev_record_values: the operation kind is not tested.
bulk_prev_begin_NoAssert ==
    /\ lpc = "new"
    /\ batch_begin
    /\ prev_record_values' = <<>>
    /\ lpc' = "prev"
    /\ UNCHANGED <<bulk_operation, prev_calls, prev_exc>>
    /\ UNCHANGED <<batch_ids, posted, fetched, yielded, origin, raised>>

\* get_prev_record_values is called: the assertion on the operation kind,
\* then the generator of _batch is created
bulk_prev_begin ==
    /\ lpc = "new"
    /\ IF PrevAssertFails(bulk_operation)
       THEN /\ prev_exc' = "AssertionError"
            /\ lpc' = "prev_failed"
            /\ UNCHANGED <<batchVars, prev_record_values>>
       ELSE /\ batch_begin
            /\ prev_record_values' = <<>>
            /\ lpc' = "prev"
            /\ UNCHANGED prev_exc
    /\ UNCHANGED <<bulk_operation, prev_calls>>
    /\ UNCHANGED <<batch_ids, posted, fetched, yielded, origin, raised>>

\* the generator takes one more input row; the previous values of the rows
\* of each batch it yields are queried
bulk_prev_record ==
    /\ lpc = "prev"
    /\ batch_record
    /\ bulk_prev_yielded("prev")
    /\ UNCHANGED <<bulk_operation, batch_ids, posted, fetched, yielded, origin,
                   raised>>

\* the generator ends, its leftover batch is queried, the values are returned
bulk_prev_leftover ==
    /\ lpc = "prev"
    /\ batch_leftover
    /\ bulk_prev_yielded("prev_returned")
    /\ UNCHANGED <<bulk_operation, batch_ids, posted, fetched, yielded, origin,
                   raised>>

\* a call on self.bulk raises for the batch the generator yielded last: the
\* error propagates
bulk_prev_raises ==
    /\ lpc = "prev"
    /\ batch_record \/ batch_leftover
    /\ LET yields == SubSeq(emitted', Len(emitted) + 1, Len(emitted'))
       IN  /\ yields # <<>>
           /\ ~BulkKeyError(yields[Len(yields)])
           /\ \E found \in BOOLEAN : \E n \in 1..5 :
                 LET pass == BulkPrevPass(SubSeq(yields, 1, Len(yields) - 1),
                                          found)
                 IN  /\ pass.exc = None
                     /\ prev_calls' =
                           prev_calls \o pass.calls
                           \o SubSeq(BulkPrevCalls(yields[Len(yields)]), 1, n)
                     /\ prev_record_values' = prev_record_values \o pass.values
    /\ prev_exc' = "transport"
    /\ lpc' = "prev_failed"
    /\ UNCHANGED <<bulk_operation, batch_ids, posted, fetched, yielded, origin,
                   raised>>

\* ---- RestApiDmlOperation.get_prev_record_values ----

\* set(self.fields + ["Id"]) of the synchronous variant
rest_relevant_fields == { rest_fields[i] : i \in 1..Len(rest_fields) } \cup {"Id"}

\* `self._record_to_json(rec)[update_key]` raises KeyError for this row
RestKeyError(rec) ==
    update_key(rest_operation, rest_api_options) \notin DOMAIN _record_to_json(rec)

\* the query of one chunk: the values of the update key that are truthy
RestPrevQuery(chunk) ==
    LET key == update_key(rest_operation, rest_api_options)
        all == [i \in 1..Len(chunk) |-> _record_to_json(chunk[i])[key]]
        truthy(v) == ~Falsy(v)
        kept == SelectSeq(all, truthy)
    IN  [fields |-> rest_relevant_fields, sobject |-> rest_sobject,
         update_key |-> key, values |-> [i \in 1..Len(kept) |-> kept[i].s]]

\* get_prev_record_values is called: the assertion on the operation kind
rest_prev_begin ==
    /\ rpc = "new"
    /\ IF PrevAssertFails(rest_operation)
       THEN /\ prev_exc' = "AssertionError"
            /\ rpc' = "prev_failed"
            /\ UNCHANGED prev_record_values
       ELSE /\ prev_record_values' = <<>>
            /\ rpc' = "prev"
            /\ UNCHANGED prev_exc
    /\ UNCHANGED <<bulk_operation, prev_calls>>
    /\ UNCHANGED <<rest_operation, rest_caller_options, rest_api_options,
                   rest_records, consumed, requests, queries, results,
                   rest_job_result, rest_yielded, rest_exc>>

\* one pass of `for chunk in iterate_in_chunks(...)`: the key values are
\* collected (a row may raise), the query is sent and its records are kept
rest_prev_chunk ==
    /\ rpc = "prev"
    /\ consumed < Len(rest_records)
    /\ LET chunk == NextChunk(rest_api_options.batch_size, rest_records, consumed)
           first == chunk[1]
       IN  IF RecordRaises(first)
           THEN /\ prev_exc' = "BulkDataException"
                /\ rpc' = "prev_failed"
                /\ UNCHANGED <<prev_calls, prev_record_values, consumed>>
           ELSE IF RestKeyError(first)
           THEN /\ prev_exc' = "KeyError"
                /\ rpc' = "prev_failed"
                /\ UNCHANGED <<prev_calls, prev_record_values, consumed>>
           ELSE IF \E i \in 1..Len(chunk) : RecordRaises(chunk[i])
           THEN /\ prev_exc' = "BulkDataException"
                /\ rpc' = "prev_failed"
                /\ UNCHANGED <<prev_calls, prev_record_values, consumed>>
           ELSE /\ prev_calls' = Append(prev_calls,
                                        Call("sf.query", RestPrevQuery(chunk)))
                /\ \E found \in BOOLEAN :
                      prev_record_values' =
                          prev_record_values
                          \o PrevRecords(rest_relevant_fields,
                                         RestPrevQuery(chunk).update_key,
                                         RestPrevQuery(chunk).values, found)
                /\ consumed' = consumed + Len(chunk)
                /\ UNCHANGED <<rpc, prev_exc>>
    /\ UNCHANGED <<bulk_operation, rest_operation, rest_caller_options,
                   rest_api_options, rest_records, requests, queries, results,
                   rest_job_result, rest_yielded, rest_exc>>

\* self.sf.query raises for a chunk: the error propagates
rest_prev_raises ==
    /\ rpc = "prev"
    /\ consumed < Len(rest_records)
    /\ LET chunk == NextChunk(rest_api_options.batch_size, rest_records, consumed)
       IN  /\ \A i \in 1..Len(chunk) : ~RecordRaises(chunk[i])
           /\ ~RestKeyError(chunk[1])
           /\ prev_calls' = Append(prev_calls,
                                   Call("sf.query", RestPrevQuery(chunk)))
    /\ prev_exc' = "transport"
    /\ rpc' = "prev_failed"
    /\ UNCHANGED <<bulk_operation, prev_record_values>>
    /\ UNCHANGED <<rest_operation, rest_caller_options, rest_api_options,
                   rest_records, consumed, requests, queries, results,
                   rest_job_result, rest_yielded, rest_exc>>

\* the loop is over: `return prev_record_values, tuple(relevant_fields)`
rest_prev_return ==
    /\ rpc = "prev"
    /\ consumed = Len(rest_records)
    /\ rpc' = "prev_returned"
    /\ UNCHANGED prevVars
    /\ UNCHANGED <<rest_operation, rest_caller_options, rest_api_options,
                   rest_records, consumed, requests, queries, results,
                   rest_job_result, rest_yielded, rest_exc>>

PrevIdle ==
    /\ bulk_operation = None
    /\ prev_calls = <<>>
    /\ prev_record_values = <<>>
    /\ prev_exc = None

\* what a caller passes as api_options to either variant
OperationOptions ==
    { <<>>, [update_key |-> "Id"], [update_key |-> "Ext__c"],
      [batch_size |-> 0], [batch_size |-> 1],
      [batch_size |-> 1, update_key |-> "Id"],
      [batch_size |-> MAX_REST_BATCH_SIZE + 1] }

\* the arguments of __init__ of BulkApiDmlOperation and the rows the
\* operation will be given
BulkUnbuilt ==
    /\ bpc = "unbuilt" /\ lpc = "unbuilt"
    /\ bulk_operation \in {INSERT, UPDATE, UPSERT}
    /\ caller_options \in OperationOptions
    /\ api_options = <<>>
    /\ records \in { r \in LoadRowSeqs : Len(r) < MaxRecords }
    /\ char_limit \in {Len(_serialize_csv_record(fields)) + 4, MaxCharLimit}
    /\ next_record = 0
    /\ batch = <<>>
    /\ current_chars = 0
    /\ emitted = <<>>
    /\ batch_ids = <<>>
    /\ posted = <<>>
    /\ fetched = <<>>
    /\ yielded = <<>>
    /\ origin = <<>>
    /\ raised = NoException
    /\ prev_calls = <<>>
    /\ prev_record_values = <<>>
    /\ prev_exc = None

\* the arguments of __init__ of RestApiDmlOperation and the rows the
\* operation will be given
RestUnbuilt ==
    /\ rpc = "unbuilt"
    /\ rest_operation \in RestOperations
    /\ rest_caller_options \in OperationOptions
    /\ rest_api_options = <<>>
    /\ rest_records \in { r \in RestRowSeqs : Len(r) < MaxRecords }
    /\ consumed = 0
    /\ requests = <<>>
    /\ queries = <<>>
    /\ results = <<>>
    /\ rest_job_result = NoJobResult
    /\ rest_yielded = <<>>
    /\ rest_exc = None
    /\ bulk_operation = None
    /\ prev_calls = <<>>
    /\ prev_record_values = <<>>
    /\ prev_exc = None
JobIdle ==
    /\ opType = "none"
    /\ pc = "idle"
    /\ serverJob = "none"
    /\ batches = <<>>
    /\ result = NoJobResult
    /\ job_result = NoJobResult
    /\ nStart = 0
    /\ nEnd = 0
    /\ exc = "none"
    /\ errlog = <<>>
    /\ polls = 0

----------------------------------------------------------------------------
(* Specifications *)

\* the Bulk API job lifecycle
Init == JobInit /\ FactoryIdle /\ BatchIdle /\ LoadIdle /\ RestIdle
    /\ QueryIdle /\ FileIdle /\ PrevIdle
Next ==
    \/ start /\ UNCHANGED notJobVars
    \/ start_raises /\ UNCHANGED notJobVars
    \/ post_batch /\ UNCHANGED notJobVars
    \/ body_done /\ UNCHANGED notJobVars
    \/ body_raises /\ UNCHANGED notJobVars
    \/ exit_end /\ UNCHANGED notJobVars
    \/ exit_end_raises /\ UNCHANGED notJobVars
    \/ query_create /\ UNCHANGED notJobVars
    \/ query_submit /\ UNCHANGED notJobVars
    \/ query_close /\ UNCHANGED notJobVars
    \/ query_raises /\ UNCHANGED notJobVars
    \/ query_exit /\ UNCHANGED notJobVars
    \/ poll /\ UNCHANGED notJobVars
    \/ poll_raises /\ UNCHANGED notJobVars
    \/ sleep /\ UNCHANGED notJobVars
    \/ finish /\ UNCHANGED notJobVars
    \/ ServerStep /\ UNCHANGED notJobVars
Spec == Init /\ [][Next]_vars

\* the calling thread runs on: every step of it that is not a raised error
\* is eventually taken
Progress ==
    /\ \/ start \/ body_done \/ exit_end \/ query_create \/ query_submit
       \/ query_close \/ query_exit \/ poll \/ sleep \/ finish
    /\ UNCHANGED notJobVars
FairSpec == Init /\ [][Next]_vars /\ WF_vars(Progress)

----------------------------------------------------------------------------
(* Properties of the job poller and of the scoped lifecycle *)

Terminal == {SUCCESS, ROW_FAILURE, JOB_FAILURE, ABORTED}

StateSet(xml) == { xml[i].state : i \in 1..Len(xml) }
FailedSum(xml) == sum([i \in 1..Len(xml) |-> xml[i].numberRecordsFailed])

StatusByPrecedence(states, failures) ==
    IF NotProcessed \in states THEN ABORTED
    ELSE IF states \cap {InProgress, Queued} # {} THEN IN_PROGRESS
    ELSE IF Failed \in states THEN JOB_FAILURE
    ELSE IF failures > 0 THEN ROW_FAILURE
    ELSE SUCCESS

\* a poll that parsed the batch list (it did not raise)
Polled == pc = "poll" /\ pc' \in {"sleep", "finish"}

\* C1: the status _parse_job_state returns is a function of the set of batch
\* states and of the summed numberRecordsFailed, by the precedence
\* Aborted > InProgress > JobFailure > RowFailure (failures > 0) > Success.
C1_StatusByPrecedence ==
    [][Polled => result'.status =
                   StatusByPrecedence(StateSet(batches), FailedSum(batches))]_vars

\* a poll of batches {Failed, Queued} was classified InProgress
C1_Witness ==
    /\ pc = "sleep"
    /\ StateSet(batches) = {Failed, Queued}
    /\ result.status = IN_PROGRESS

\* C2: _wait_for_job never returns an InProgress result, and job_result is
\* unset or carries one of Success, RowFailure, JobFailure, Aborted.
C2_JobResultTerminal ==
    /\ pc = "finish" => result.status \in Terminal
    /\ job_result = NoJobResult \/ job_result.status \in Terminal

\* a job that was polled several times and ended in JobFailure
C2_Witness ==
    /\ job_result.status = JOB_FAILURE
    /\ polls = MaxPollsCounted

Pending == \E i \in 1..Len(batches) : batches[i].state \in {InProgress, Queued}

\* a poll that finds a pending batch and no "Not Processed" one goes to sleep,
\* and the sleep is followed by the next poll
PollsAgain ==
    /\ Polled /\ Pending /\ ~(NotProcessed \in StateSet(batches)) => pc' = "sleep"
    /\ pc = "sleep" /\ pc' # "sleep" => pc' = "poll"

\* C3: if the batches eventually stop reporting InProgress or Queued and no
\* transport error occurs, _wait_for_job eventually returns a JobResult; while
\* a batch is pending (and none is Not Processed) each poll is followed by a
\* sleep and another poll.
C3_PollerLiveness ==
    /\ ((<>[]~Pending) /\ [](exc # "transport")) => <>(job_result # NoJobResult)
    /\ [][PollsAgain]_vars

\* the poller went round the loop and then returned
C3_Witness ==
    /\ polls = MaxPollsCounted
    /\ job_result # NoJobResult
    /\ exc # "transport"

InBlock == opType = "dml" /\ pc \in {"body", "exit"}
InEnd == opType = "dml" /\ pc \in {"poll", "sleep", "finish"}
BlockLeft == opType = "dml" /\ pc = "left"

\* start() once on entry, end() once on exit
StartEndOnce ==
    /\ InBlock => nStart = 1 /\ nEnd = 0
    /\ InEnd \/ BlockLeft => nStart = 1 /\ nEnd = 1

\* C7 as stated: start() and end() are each called exactly once, and the block
\* is never left before the job is closed and polled to a terminal status.
C7_Original ==
    /\ StartEndOnce
    /\ BlockLeft => serverJob = "closed" /\ job_result.status \in Terminal

\* C7 amended: start() and end() are each called exactly once, on the normal and
\* on the exceptional path; the block is left with the job closed and polled to
\* a terminal status unless close_job or a poll raised a transport error, and
\* then job_result is still unset.
C7_ScopedBlock ==
    /\ StartEndOnce
    /\ BlockLeft /\ exc # "transport" =>
          serverJob = "closed" /\ job_result.status \in Terminal
    /\ BlockLeft /\ exc = "transport" => job_result = NoJobResult

\* the body raised, and the block was left with the job closed and polled
C7_Witness ==
    /\ BlockLeft
    /\ exc = "body"
    /\ nEnd = 1
    /\ serverJob = "closed"
    /\ Len(batches) > 0
    /\ job_result.status \in Terminal

\* _wait_for_job returns: the step after the loop
Returns == pc = "finish" /\ pc' # "finish"

\* what the return of _wait_for_job does with a JobFailure result
ReturnsJobFailure ==
    Returns /\ result.status = JOB_FAILURE =>
        /\ exc' = exc
        /\ job_result' = result
        /\ job_result'.job_errors = TextsOf(batches)
        /\ errlog' = errlog \o TextsOf(batches)

\* C19: when a poll classifies the job as JobFailure, _wait_for_job raises
\* nothing and returns a JobResult whose job_errors are the state messages of
\* the batch list, the operation stores it as job_result, and each message is
\* logged once at error level; for every other status job_errors is empty
\* (and nothing is logged at error level).
C19_JobFailureAsData ==
    /\ [][ReturnsJobFailure]_vars
    /\ [](result.status # JOB_FAILURE => result.job_errors = <<>>)
    /\ [](job_result.status # JOB_FAILURE => job_result.job_errors = <<>>)
    /\ [](errlog = job_result.job_errors)

\* two batches failed; both messages are in job_result and in the error log
C19_Witness ==
    /\ job_result.status = JOB_FAILURE
    /\ job_result.job_errors = <<"InvalidBatch", "Timeout">>
    /\ errlog = job_result.job_errors
    /\ exc = "none"

----------------------------------------------------------------------------
(* Properties of the counts and of the order of the calls of query() *)

ProcessedSum(xml) == sum([i \in 1..Len(xml) |-> xml[i].numberRecordsProcessed])

Closes == opType = "query" /\ serverJob = "open" /\ serverJob' = "closed"

\* C24: query() of the batch-oriented variant calls create_query_job, then
\* submits exactly one query batch, then polls until the status is terminal,
\* then closes the job: close_job is never called while the last poll
\* reported InProgress, and job_result is set when close_job is called.
C24_QueryCallOrder ==
    /\ [][Closes => /\ polls > 0
                    /\ result.status \in Terminal
                    /\ job_result = result
                    /\ Len(batches) = 1]_vars
    /\ [](opType = "query" =>
            /\ Len(batches) <= 1
            /\ (batches # <<>> => serverJob # "none")
            /\ (polls > 0 => Len(batches) = 1)
            /\ (serverJob = "closed" => job_result.status \in Terminal))

\* the query job was closed after a wait of several polls
C24_Witness ==
    /\ opType = "query"
    /\ serverJob = "closed"
    /\ polls >= 2
    /\ job_result.status = SUCCESS
    /\ Len(batches) = 1

----------------------------------------------------------------------------
(* Properties of the operation factories *)

Auto == {SMART, None}
Returned(fn) == fpc = "returned" /\ fargs.fn = fn

ListedLarge(response, sobject) ==
    \E i \in 1..Len(response) :
        response[i].name = sobject /\ response[i].count >= 2000

C6_OldVersionForcesBulk ==
    fpc = "returned" /\ fargs.sf_version < 42 =>
        /\ fargs.fn = "get_dml_operation" => fclass = "BulkApiDmlOperation"
        /\ fargs.fn = "get_query_operation" =>
              fclass = "BulkApiQueryOperation" /\ restful_calls = 0

\* REST was asked for on API version 41 and the Bulk variant came back
C6_Witness ==
    /\ Returned("get_query_operation")
    /\ fargs.sf_version = 41 /\ fargs.api = REST
    /\ fclass = "BulkApiQueryOperation" /\ restful_calls = 0

\* C29 as stated: get_dml_operation never returns the synchronous variant for
\* operation kind HardDelete, whatever the API choice, the volume and the
\* server API version.
C29_Original ==
    Returned("get_dml_operation") /\ fargs.operation = HARD_DELETE =>
        fclass # "RestApiDmlOperation"

----------------------------------------------------------------------------
\* the operation factories
InitFactory == FactoryInit /\ JobIdle /\ BatchIdle /\ LoadIdle /\ RestIdle
    /\ QueryIdle /\ FileIdle /\ PrevIdle
NextFactory ==
    \/ call_get_query_operation /\ UNCHANGED notFactoryVars
    \/ call_get_dml_operation /\ UNCHANGED notFactoryVars
SpecFactory == InitFactory /\ [][NextFactory]_vars

(* Properties of the chunker *)

Header == _serialize_csv_record(fields)

RECURSIVE DataRows(_)
\* the rows of the batches, header rows left out, in emission order
DataRows(bs) == IF bs = <<>> THEN <<>> ELSE Tail(Head(bs)) \o DataRows(Tail(bs))

Serialized(rows) == [i \in 1..Len(rows) |-> _serialize_csv_record(rows[i])]

\* the batches yielded so far, and the one being filled
Emitted == { emitted[i] : i \in 1..Len(emitted) }
InHand == IF bpc = "loop" THEN <<batch>> ELSE <<>>

\* C8: the data rows of the emitted batches, concatenated in emission order,
\* are the serialized input rows in input order (none dropped, duplicated or
\* reordered), and every emitted batch begins with the header row.
C8_BatchesPartitionInput ==
    /\ bpc = "loop" =>
          DataRows(emitted \o InHand) = Serialized(SubSeq(records, 1, next_record - 1))
    /\ bpc = "done" => DataRows(emitted) = Serialized(records)
    /\ \A b \in Emitted : Head(b) = Header

\* three rows came out in two batches
C8_Witness ==
    /\ bpc = "done"
    /\ Len(records) = 3
    /\ Len(emitted) = 2
    /\ records[1] # records[2] /\ records[2] # records[3]

\* the record-count ceiling of the operation
Ceiling ==
    IF "batch_size" \in DOMAIN caller_options /\ caller_options.batch_size > 0
    THEN caller_options.batch_size
    ELSE 10000

\* C9: no emitted batch holds more than n data records, n being the caller's
\* batch_size, or 10,000 when batch_size is absent or zero.
C9_RecordCeiling ==
    bpc # "idle" =>
        /\ api_options.batch_size = Ceiling
        /\ \A b \in Emitted : Len(b) - 1 <= Ceiling

\* a batch was flushed because it had reached batch_size, with rows still to come
C9_Witness ==
    /\ bpc = "done"
    /\ "batch_size" \in DOMAIN caller_options /\ caller_options.batch_size = 2
    /\ Len(records) = 3
    /\ Len(emitted) = 2
    /\ Len(emitted[1]) - 1 = 2

Size(b) == sum([j \in 1..Len(b) |-> Len(b[j])])

\* no row but the first data row of a batch was added to a batch it pushed over
\* the ceiling: the accumulated batch was flushed first
FlushedBefore ==
    \A b \in Emitted \cup { InHand[i] : i \in 1..Len(InHand) } :
        \A j \in 3..Len(b) : Size(SubSeq(b, 1, j)) <= char_limit

----------------------------------------------------------------------------
\* the chunker of the Bulk API DML operation
InitBatch == BatchInit /\ JobIdle /\ FactoryIdle /\ LoadIdle /\ RestIdle
    /\ QueryIdle /\ FileIdle /\ PrevIdle
NextBatch ==
    \/ batch_begin /\ UNCHANGED notBatchVars
    \/ batch_record /\ UNCHANGED notBatchVars
    \/ batch_leftover /\ UNCHANGED notBatchVars
SpecBatch == InitBatch /\ [][NextBatch]_vars

----------------------------------------------------------------------------
(* Properties of load_records and get_results (batch-oriented) *)

IsPrefix(p, q) == Len(p) <= Len(q) /\ p = SubSeq(q, 1, Len(p))

PostedData == [i \in 1..Len(posted) |-> posted[i].data]
PostedIds == [i \in 1..Len(posted) |-> posted[i].batch_id]

\* load_records is running or has returned normally
Loading == lpc \in {"load", "loaded", "results", "exhausted", "raised"}

\* C11: load_records posts every batch the chunker emitted exactly once, in
\* emission order, under the operation's job id (on the path where post_batch
\* raises no batch is posted twice either), and batch_ids holds the returned
\* ids in submission order; get_results requests the result files in the
\* order of batch_ids, each once, so the yielded results report on the input
\* rows in input order.
C11_SubmittedOnceInOrder ==
    /\ Loading => PostedData = emitted /\ batch_ids = PostedIds
    /\ lpc = "post_failed" =>
          /\ IsPrefix(PostedData, emitted)
          /\ Len(PostedData) >= Len(emitted) - 1
          /\ IsPrefix(batch_ids, PostedIds)
    /\ \A i \in 1..Len(posted) : posted[i].job_id = job_id
    /\ IsPrefix(fetched, batch_ids)
    /\ Len(yielded) = Len(origin)
    /\ IsPrefix(origin, Serialized(records))
    /\ lpc = "exhausted" => fetched = batch_ids /\ origin = Serialized(records)

\* three different neighbours were loaded in two batches and all their results
\* were read
C11_Witness ==
    /\ lpc = "exhausted"
    /\ Len(batch_ids) = 2
    /\ Len(yielded) = 3
    /\ records[1] # records[2] /\ records[2] # records[3]

\* what holds once get_results has raised, k being the failing sub-batch
RaisedAtK ==
    LET k == Len(fetched)
    IN  /\ k >= 1
        /\ raised = BulkDataException(batch_ids[k])
        /\ fetched = SubSeq(batch_ids, 1, k)
        /\ \A i, j \in 1..k : fetched[i] = fetched[j] => i = j
        /\ IsPrefix(DataRows(SubSeq(PostedData, 1, k - 1)), origin)
        /\ Len(yielded) = Len(origin)

\* C20: when downloading or reading the result file of sub-batch k fails,
\* get_results raises a BulkDataException whose message names sub-batch k;
\* the results of the sub-batches before k have been yielded (and stay
\* yielded), the file of k was requested once, and no later sub-batch is
\* fetched.
C20_DownloadFailure ==
    /\ [](raised # NoException <=> lpc = "raised")
    /\ [](lpc = "raised" => RaisedAtK)
    /\ [][IsPrefix(yielded, yielded') /\ IsPrefix(fetched, fetched')]_vars
    /\ [][lpc = "raised" => UNCHANGED <<fetched, yielded, raised>>]_vars

\* the second of three result files failed after the first one was read
C20_Witness ==
    /\ lpc = "raised"
    /\ Len(batch_ids) = 3
    /\ Len(fetched) = 2
    /\ raised = BulkDataException(batch_ids[2])
    /\ Len(yielded) >= 1

\* a batch of the header row followed by at least one data record
HasData(b) == Len(b) >= 2 /\ Head(b) = Header

\* C28 as stated: every batch _batch emits, and every sub-batch load_records
\* submits, is the header row followed by at least one data record (no
\* header-only batch), and an empty input yields no batch.
C28_Original ==
    /\ \A i \in 1..Len(emitted) : HasData(emitted[i])
    /\ \A i \in 1..Len(posted) : HasData(posted[i].data)
    /\ records = <<>> => emitted = <<>> /\ posted = <<>>

----------------------------------------------------------------------------
(* BulkApiDmlOperation.load_records followed by get_results *)
InitLoad == LoadInit /\ JobIdle /\ FactoryIdle /\ RestIdle
    /\ QueryIdle /\ FileIdle /\ PrevIdle
NextLoad ==
    \/ load_begin /\ UNCHANGED notLoadVars
    \/ load_record /\ UNCHANGED notLoadVars
    \/ load_leftover /\ UNCHANGED notLoadVars
    \/ load_raises /\ UNCHANGED notLoadVars
    \/ get_results_batch /\ UNCHANGED notLoadVars
    \/ get_results_raises /\ UNCHANGED notLoadVars
    \/ get_results_end /\ UNCHANGED notLoadVars
SpecLoad == InitLoad /\ [][NextLoad]_vars

----------------------------------------------------------------------------
(* Properties of the synchronous DML operation *)

\* load_records has returned normally
Loaded == rpc \in {"done", "yielded"} /\ queries = <<>>

Unsuccessful(res) == { i \in 1..Len(res) : ~res[i].success }

\* C12: after load_records completes, job_result.status is Success if every
\* buffered response is successful and RowFailure otherwise, records_processed
\* is the number of buffered responses and total_row_errors the number of
\* unsuccessful ones.
C12_LoadJobResult ==
    Loaded =>
        /\ rest_job_result.status =
              IF Unsuccessful(results) = {} THEN SUCCESS ELSE ROW_FAILURE
        /\ rest_job_result.records_processed = Len(results)
        /\ rest_job_result.total_row_errors = Cardinality(Unsuccessful(results))

\* three rows went out in two requests and two of them failed
C12_Witness ==
    /\ Loaded
    /\ Len(requests) = 2
    /\ Len(results) = 3
    /\ rest_job_result.status = ROW_FAILURE
    /\ rest_job_result.total_row_errors = 2

\* the input row behind payload j of request k
SentRow(k, j) == rest_records[(k - 1) * rest_api_options.batch_size + j]

\* field f of a sent row was the empty string: what its payload holds
EmptyStringHandled(payload, f) ==
    /\ rest_operation = INSERT => rest_fields[f] \notin DOMAIN payload
    /\ rest_operation \in {UPDATE, UPSERT} =>
          /\ rest_fields[f] \in DOMAIN payload
          /\ payload[rest_fields[f]] = NoneValue

\* the payloads sent so far satisfy P(payload, row)
AllPayloads(P(_, _)) ==
    \A k \in 1..Len(requests) :
        requests[k].method # "DELETE" =>
            \A j \in 1..Len(requests[k].json.records) :
                P(requests[k].json.records[j], SentRow(k, j))

OriginalRule(payload, row) ==
    \A f \in 1..Len(rest_fields) :
        row[f] = Str("") => EmptyStringHandled(payload, f)

\* C13 as stated: for every field of the field list, an empty-string input is
\* left out of an Insert payload and is null in an Update or Upsert payload.
C13_Original == AllPayloads(OriginalRule)

AmendedRule(payload, row) ==
    \A f \in 1..Len(rest_fields) :
        row[f] = Str("") =>
            IF rest_fields[f] \in boolean_fields
            THEN /\ rest_fields[f] \in DOMAIN payload
                 /\ payload[rest_fields[f]] = Bool(FALSE)
            ELSE EmptyStringHandled(payload, f)

\* C13 amended: for every field of the field list that is not boolean-typed,
\* an empty-string input is left out of an Insert payload and is null in an
\* Update or Upsert payload; for a boolean-typed field the empty string is
\* coerced to false first and the payload carries false, whatever the kind.
C13_EmptyStringFields == AllPayloads(AmendedRule)

\* an Insert sent the row whose Name and IsActive are both empty
C13_Witness ==
    /\ rest_operation = INSERT
    /\ Len(requests) = 1
    /\ SentRow(1, 1) = <<Str("002"), Str(""), Str("")>>
    /\ DOMAIN requests[1].json.records[1] = {"Id", "IsActive", "attributes"}

\* the number of records a composite request carries
Carried(request) ==
    IF request.method = "DELETE" THEN Len(request.ids)
    ELSE Len(request.json.records)

\* min(batch_size or 200, 200) of the caller's options
Effective ==
    IF "batch_size" \notin DOMAIN rest_caller_options THEN 200
    ELSE IF rest_caller_options.batch_size = 0 THEN 200
    ELSE IF rest_caller_options.batch_size > 200 THEN 200
    ELSE rest_caller_options.batch_size

\* C14: for a caller's batch_size that is absent, zero or positive, the
\* operation's effective batch size is min(batch_size or 200, 200): 200 when
\* absent, never above 200, and no composite request sent by load_records
\* carries more records than that.
C14_RestBatchCeiling ==
    rpc # "idle" =>
        /\ rest_api_options.batch_size = Effective
        /\ rest_api_options.batch_size <= 200
        /\ \A k \in 1..Len(requests) : Carried(requests[k]) <= Effective

\* the caller asked for 201 per request: 201 rows went out as 200 and 1
C14_Witness ==
    /\ "batch_size" \in DOMAIN rest_caller_options
    /\ rest_caller_options.batch_size = 201
    /\ Len(rest_records) = 201
    /\ Len(requests) = 2
    /\ Carried(requests[1]) = 200 /\ Carried(requests[2]) = 1

\* select_records has run
Selected == queries # <<>>

\* C15: select_records with N input rows, when the query returns M records
\* with 1 <= M < N, buffers exactly N results, result i (counted from 0) being
\* the selected record i mod M in query order, and the query is sent once.
C15_CyclicPadding ==
    Selected =>
        /\ Len(queries) = 1
        /\ LET N == Len(rest_records)
               M == queries[1].returned
           IN  ~queries[1].raised /\ 1 <= M /\ M < N =>
                  /\ Len(results) = N
                  /\ \A i \in 0..(N - 1) :
                        /\ results[i + 1].kind = "dict"
                        /\ results[i + 1].id = QueryRecords(M)[(i % M) + 1].Id
                        /\ results[i + 1].success

\* three rows, two records found: the first one is used again
C15_Witness ==
    /\ Selected
    /\ Len(rest_records) = 3
    /\ queries[1].returned = 2
    /\ Len(results) = 3
    /\ results[3].id = results[1].id
    /\ results[2].id # results[1].id

\* how many records the query of select_records gave
NumSelected == IF queries[1].raised THEN 0 ELSE queries[1].returned

\* C16 as stated: select_records sets job_result.status to JobFailure if and
\* only if zero records were selected, and to Success whenever at least one
\* record was selected.
C16_Original ==
    Selected =>
        /\ rest_job_result.status = JOB_FAILURE <=> NumSelected = 0
        /\ NumSelected >= 1 => rest_job_result.status = SUCCESS

\* load_records raises in its loop, while it works on chunk k
LoadRaises == rpc = "chunks" /\ rpc' = "failed"

\* the chunks load_records went through before chunk k
ChunksBefore ==
    (consumed + rest_api_options.batch_size - 1) \div rest_api_options.batch_size

\* load_records has raised in its loop
LoadFailed ==
    rpc = "failed" /\ rest_exc \in {"AssertionError", "BulkDataException", "transport"}

\* C30: when synchronous load_records raises while it works on chunk k (a row
\* that cannot be converted, wrapped as BulkDataException, or a transport
\* error of the request), the responses of the chunks before k stay buffered,
\* job_result is what it was before the call, and nothing more is sent: no
\* request for chunk k when a row of it could not be converted, the one
\* request that raised when the transport failed, none for a later chunk.
C30_LoadRaisesAtChunk ==
    /\ [][LoadRaises => /\ results' = results
                        /\ rest_job_result' = rest_job_result
                        /\ rest_exc' # "transport" => requests' = requests
                        /\ rest_exc' = "transport" =>
                              /\ Len(requests') = Len(requests) + 1
                              /\ SubSeq(requests', 1, Len(requests)) = requests]_vars
    /\ [](LoadFailed =>
            /\ rest_job_result = NoJobResult
            /\ Len(results) = consumed
            /\ Len(requests) = ChunksBefore
                               + (IF rest_exc = "transport" THEN 1 ELSE 0))
    /\ [][LoadFailed => UNCHANGED <<requests, results, rest_job_result>>]_vars

\* the second chunk held a row that cannot be converted: one request was
\* sent, its responses are buffered, job_result is not set
C30_Witness ==
    /\ rpc = "failed" /\ rest_exc = "BulkDataException"
    /\ consumed >= 1
    /\ Len(requests) = 1
    /\ Len(results) = consumed
    /\ consumed < Len(rest_records)
    /\ rest_job_result = NoJobResult
----------------------------------------------------------------------------
(* RestApiDmlOperation: load_records or select_records, then get_results *)
InitRest == RestInit /\ JobIdle /\ FactoryIdle /\ BatchIdle /\ LoadIdle
    /\ QueryIdle /\ FileIdle /\ PrevIdle
NextRest ==
    \/ rest_load_begin /\ UNCHANGED notRestVars
    \/ rest_load_chunk /\ UNCHANGED notRestVars
    \/ rest_load_raises /\ UNCHANGED notRestVars
    \/ rest_load_end /\ UNCHANGED notRestVars
    \/ select_records /\ UNCHANGED notRestVars
    \/ select_records_query_raises /\ UNCHANGED notRestVars
    \/ rest_get_results /\ UNCHANGED notRestVars
SpecRest == InitRest /\ [][NextRest]_vars

----------------------------------------------------------------------------
(* Either DML variant: a batch-oriented operation that loads and reads its  *)
(* results, or a synchronous one                                            *)
InitDml ==
    \/ LoadInit /\ RestIdle /\ JobIdle /\ FactoryIdle /\ QueryIdle /\ FileIdle /\ PrevIdle
    \/ RestInit /\ LoadIdle /\ BatchIdle /\ JobIdle /\ FactoryIdle /\ QueryIdle /\ FileIdle /\ PrevIdle
NextDml == NextLoad \/ NextRest
SpecDml == InitDml /\ [][NextDml]_vars

----------------------------------------------------------------------------
(* Properties of the RecordResults of both DML variants *)

\* every result yielded so far, by either variant, satisfies P
AllYielded(P(_)) ==
    /\ \A i \in 1..Len(yielded) : P(yielded[i])
    /\ \A i \in 1..Len(rest_yielded) : P(rest_yielded[i])

NoErrorOnSuccess(r) == r.success => r.error = ""

\* C17 as stated: every RecordResult yielded by get_results of either DML
\* variant with success = True has error equal to the empty string.
C17_Original == AllYielded(NoErrorOnSuccess)

NoIdOnFailure(r) == ~r.success => r.id = None /\ r.error # ""

----------------------------------------------------------------------------
(* Properties of the synchronous query operation *)

\* the row a record is to be yielded as: its fields in the order of
\* self.fields, a null as the empty string, a bool by its name
RowOf(rec) ==
    <<rec.Id.s,
      CASE rec.Name.type = "NoneType" -> ""
        [] rec.Name.type = "bool" -> (IF rec.Name.b THEN "True" ELSE "False")
        [] OTHER -> rec.Name.s>>

RECURSIVE RowsOfPages(_, _)
\* the rows of the pages from..to of the result set, in server order
RowsOfPages(from, to) ==
    IF from > to THEN <<>>
    ELSE [j \in 1..Len(pages[from].records) |-> RowOf(pages[from].records[j])]
         \o RowsOfPages(from + 1, to)

\* get_results is running or has returned
Reading == qpc \in {"page", "exhausted"}

\* a call of sf.query_more
FetchesMore ==
    /\ Len(q_calls') = Len(q_calls) + 1
    /\ q_calls'[Len(q_calls')].call = "query_more"

\* C23: get_results of the synchronous query yields the converted records of
\* the page self.response holds when it is called (the first page after
\* query()) and then of every follow-up page, in server order, each record
\* once; it fetches a follow-up page only when the page in hand is used up
\* and not marked done, and returns right after the rows of the first page
\* marked done; a null field is yielded as the empty string, any other value
\* as its string form.
C23_PagesInOrder ==
    /\ [](Reading =>
            q_yielded = RowsOfPages(q_started, PageOf(q_response) - 1)
                        \o SubSeq(RowsOfPages(PageOf(q_response),
                                              PageOf(q_response)), 1, q_pos))
    /\ [](qpc = "exhausted" =>
            /\ q_response.done
            /\ q_pos = Len(q_response.records)
            /\ \A i \in q_started..(PageOf(q_response) - 1) : ~pages[i].done)
    /\ [][FetchesMore =>
            /\ ~q_response.done
            /\ q_pos = Len(q_response.records)
            /\ q_calls'[Len(q_calls')].url = q_response.nextRecordsUrl
            /\ qpc' = "page" => PageOf(q_response') = PageOf(q_response) + 1]_vars

\* three pages were read to the end after query(): five rows, one with a null
\* and one with a bool
C23_Witness ==
    /\ qpc = "exhausted"
    /\ q_started = 1
    /\ Len(pages) = 3
    /\ Len(q_calls) = 3
    /\ Len(q_yielded) = 5
    /\ q_yielded[1] = <<"001", "">>
    /\ q_yielded[3] = <<"003", "True">>

\* the query() calls made so far
NumQueries == Cardinality({ i \in 1..Len(q_calls) : q_calls[i].call = "query" })

\* C25: the first get_results after query() starts from the first page and
\* yields the full sequence; a get_results called again without query()
\* starts from the last page fetched (for a result of more than one page it
\* does not replay the sequence from the first page); query() called again
\* resets the cursor to the first page.
C25_RestartOnlyByQuery ==
    /\ [](Reading /\ q_runs = 1 => q_started = 1)
    /\ [](Reading /\ q_runs >= 2 => q_started = Len(pages))
    /\ [](qpc = "exhausted" /\ q_runs = 1 =>
            q_yielded = RowsOfPages(1, Len(pages)))
    /\ [](qpc = "exhausted" /\ q_runs >= 2 =>
            q_yielded = RowsOfPages(Len(pages), Len(pages)))
    /\ [](qpc = "queried" => q_response = pages[1] /\ q_runs = 0)

\* after a second query() the full sequence was read, and a get_results
\* called again yielded the rows of the last page only
C25_Witness ==
    /\ qpc = "exhausted"
    /\ NumQueries = 2
    /\ q_runs = 2
    /\ Len(pages) = 2
    /\ Len(q_yielded) = 1
    /\ Len(RowsOfPages(1, Len(pages))) = 3

----------------------------------------------------------------------------
(* RestApiQueryOperation: query, then get_results read to its end *)
InitQuery ==
    QueryInit /\ JobIdle /\ FactoryIdle /\ BatchIdle /\ LoadIdle /\ RestIdle
    /\ FileIdle /\ PrevIdle
NextQuery ==
    \/ rq_query /\ UNCHANGED notQueryVars
    \/ rq_query_raises /\ UNCHANGED notQueryVars
    \/ rq_get_results /\ UNCHANGED notQueryVars
    \/ rq_yield /\ UNCHANGED notQueryVars
    \/ rq_more /\ UNCHANGED notQueryVars
    \/ rq_more_raises /\ UNCHANGED notQueryVars
    \/ rq_return /\ UNCHANGED notQueryVars
SpecQuery == InitQuery /\ [][NextQuery]_vars

----------------------------------------------------------------------------
(* Properties of the temporary result files *)

\* inside the `with download_file(...)` block, from mkstemp on
InDownload == dpc \in {"created", "header", "rows", "yielded"}

\* C21: a temporary file exists only while get_results is inside the block
\* of download_file that created it, and it is removed when that block is
\* left: normally, by an error of the download, or by an error raised while
\* rows are read; once the row sequence is exhausted or has failed no
\* temporary file is left.
C21_TempFilesRemoved ==
    /\ [](tempfiles = IF InDownload THEN {path} ELSE {})
    /\ [][InDownload /\ ~InDownload' => tempfiles' = {}]_vars
    /\ [](dpc \in {"exhausted", "failed", "closed"} => tempfiles = {})

\* reading the second result file raised after rows of both files were
\* yielded: both temporary files are gone
C21_Witness ==
    /\ dpc = "failed"
    /\ mkstemps = 2
    /\ d_yielded = 2
    /\ d_unread # <<>> /\ Head(d_unread) = RowBad
    /\ tempfiles = {}

----------------------------------------------------------------------------
(* get_results of a Bulk API operation, with its temporary files *)
InitFiles ==
    FileInit /\ JobIdle /\ FactoryIdle /\ BatchIdle /\ LoadIdle /\ RestIdle
    /\ QueryIdle /\ PrevIdle
NextFiles ==
    \/ download_mkstemp /\ UNCHANGED notFileVars
    \/ download_mkstemp_raises /\ UNCHANGED notFileVars
    \/ download_get /\ UNCHANGED notFileVars
    \/ download_get_raises /\ UNCHANGED notFileVars
    \/ read_header /\ UNCHANGED notFileVars
    \/ read_header_raises /\ UNCHANGED notFileVars
    \/ read_row /\ UNCHANGED notFileVars
    \/ read_row_raises /\ UNCHANGED notFileVars
    \/ file_done /\ UNCHANGED notFileVars
    \/ generator_close /\ UNCHANGED notFileVars
    \/ results_end /\ UNCHANGED notFileVars
SpecFiles == InitFiles /\ [][NextFiles]_vars

----------------------------------------------------------------------------
(* Properties of __init__ and of get_prev_record_values *)

\* get_prev_record_values is called
CallsPrevBulk == lpc = "new" /\ lpc' \in {"prev", "prev_failed"}
CallsPrevRest == rpc = "new" /\ rpc' \in {"prev", "prev_failed"}

\* C22: get_prev_record_values of either DML variant, called on an operation
\* whose kind is neither Upsert nor Update, raises AssertionError before it
\* queries anything or creates a job, and leaves the state of the operation
\* (job id, buffered results, job_result) as it was; for Upsert and Update
\* the assertion does not fail.
C22_PrevAssertion ==
    /\ [][CallsPrevBulk /\ bulk_operation \notin {UPSERT, UPDATE} =>
            /\ lpc' = "prev_failed" /\ prev_exc' = "AssertionError"
            /\ UNCHANGED <<prev_calls, batch_ids, posted, emitted, api_options,
                           jobVars, restVars>>]_vars
    /\ [][CallsPrevRest /\ rest_operation \notin {UPSERT, UPDATE} =>
            /\ rpc' = "prev_failed" /\ prev_exc' = "AssertionError"
            /\ UNCHANGED <<prev_calls, results, rest_job_result, requests,
                           queries, rest_api_options, jobVars, loadVars>>]_vars
    /\ [](prev_exc = "AssertionError" =>
            /\ prev_calls = <<>>
            /\ lpc = "prev_failed" => bulk_operation \notin {UPSERT, UPDATE}
            /\ rpc = "prev_failed" => rest_operation \notin {UPSERT, UPDATE})
    /\ [][CallsPrevBulk /\ bulk_operation \in {UPSERT, UPDATE} =>
            lpc' = "prev" /\ prev_exc' = None]_vars
    /\ [][CallsPrevRest /\ rest_operation \in {UPSERT, UPDATE} =>
            rpc' = "prev" /\ prev_exc' = None]_vars

\* get_prev_record_values was called with rows on a batch-oriented Insert
\* operation: the assertion failed and nothing was asked of the server
C22_Witness ==
    /\ lpc = "prev_failed"
    /\ bulk_operation = INSERT
    /\ records # <<>>
    /\ prev_exc = "AssertionError"
    /\ prev_calls = <<>>

\* the operation exists: __init__ has returned
BulkBuilt == lpc \notin {"idle", "unbuilt"}
RestBuilt == rpc \notin {"idle", "unbuilt"}

\* the mapping `own` is the mapping `given` with batch_size set to `size`
CopyWith(own, given, size) ==
    /\ DOMAIN own = DOMAIN given \cup {"batch_size"}
    /\ own.batch_size = size
    /\ \A k \in DOMAIN given \ {"batch_size"} : own[k] = given[k]

\* the batch_size the caller gave, or the default
GivenOr(given, default) ==
    IF "batch_size" \in DOMAIN given /\ given.batch_size # 0
    THEN given.batch_size ELSE default

\* C27: __init__ of either DML variant leaves the mapping the caller passed as
\* api_options unchanged: the default batch size (and, for the synchronous
\* variant, the cap of 200) is written into the operation's own copy; after
\* __init__ no handler (start, load_records, get_prev_record_values,
\* select_records, end, get_results) modifies self.api_options.
C27_OptionsFrame ==
    /\ [][/\ caller_options' = caller_options
          /\ rest_caller_options' = rest_caller_options]_vars
    /\ [][BulkBuilt => api_options' = api_options]_vars
    /\ [][RestBuilt => rest_api_options' = rest_api_options]_vars
    /\ [](BulkBuilt =>
            CopyWith(api_options, caller_options,
                     GivenOr(caller_options, 10000)))
    /\ [](RestBuilt =>
            CopyWith(rest_api_options, rest_caller_options,
                     IF GivenOr(rest_caller_options, 200) > 200 THEN 200
                     ELSE GivenOr(rest_caller_options, 200)))

\* a synchronous operation was built from a mapping with batch_size 201 and
\* an update key, its rows were loaded and its results read: the caller's
\* mapping still says 201, the operation's copy says 200
C27_Witness ==
    /\ rpc = "yielded"
    /\ rest_caller_options = [batch_size |-> 201]
    /\ rest_api_options = [batch_size |-> 200]
    /\ Len(rest_yielded) >= 1

----------------------------------------------------------------------------
(* A DML operation of either variant: __init__, then get_prev_record_values *)
(* or the load and the reading of its results; the scoped block of the     *)
(* batch-oriented operation (start and end)                                 *)
InitOperation ==
    \/ BulkUnbuilt /\ RestIdle /\ JobIdle /\ FactoryIdle /\ QueryIdle /\ FileIdle
    \/ RestUnbuilt /\ LoadIdle /\ BatchIdle /\ JobIdle /\ FactoryIdle
       /\ QueryIdle /\ FileIdle
    \/ Init
NextOperation ==
    \/ bulk_construct /\ UNCHANGED <<restVars, notDmlVars>>
    \/ bulk_prev_begin /\ UNCHANGED <<restVars, notDmlVars>>
    \/ bulk_prev_record /\ UNCHANGED <<restVars, notDmlVars>>
    \/ bulk_prev_leftover /\ UNCHANGED <<restVars, notDmlVars>>
    \/ bulk_prev_raises /\ UNCHANGED <<restVars, notDmlVars>>
    \/ rest_construct /\ UNCHANGED <<batchVars, loadVars, notDmlVars>>
    \/ rest_prev_begin /\ UNCHANGED <<batchVars, loadVars, notDmlVars>>
    \/ rest_prev_chunk /\ UNCHANGED <<batchVars, loadVars, notDmlVars>>
    \/ rest_prev_raises /\ UNCHANGED <<batchVars, loadVars, notDmlVars>>
    \/ rest_prev_return /\ UNCHANGED <<batchVars, loadVars, notDmlVars>>
    \/ NextDml
    \/ Next
SpecOperation == InitOperation /\ [][NextOperation]_vars

====
